---- MODULE Spec2Model ----
(***************************************************************************)
(* Clothion: a caching proxy in front of the Notion API.                   *)
(*                                                                         *)
(* The model covers the cache synchronisation of notion_cache.get_data     *)
(* (reset / update / cache-only, watermark, create-or-update per row,      *)
(* per-commit transaction semantics of the SQLAlchemy session) and the     *)
(* filter compiler of crud.create_db_filter / crud.make_condition.         *)
(*                                                                         *)
(* Conventions                                                             *)
(*   - a nullable column or an Optional value is a set: {} is NULL/None,   *)
(*     {v} is the value v;                                                 *)
(*   - string *values* are sequences of one-character strings, so that     *)
(*     concatenation and JSON encoding are computed, not assumed;          *)
(*   - an ISO-8601 timestamp is a record [local, tz]: the wall-clock       *)
(*     reading and the optional UTC offset written in the string;          *)
(*   - a JSON value is a record with one field named after its type.       *)
(***************************************************************************)
EXTENDS Integers, Sequences, FiniteSets, Bags, TLC

VARIABLES
    elements,    \* committed rows of table "elements"
    attributes,  \* committed rows of table "attributes"
    deleted,     \* attribute rows deleted in the open transaction of the request's session
    call,        \* the /data request being answered: inputs, upstream exchange, answer
    last,        \* what the most recent /data request answered
    flt,         \* the last filter compilation: its inputs and outcome
    qry,         \* the read of the /data request being answered: descriptors and answer
    sch,         \* the /schema request being answered
    integrations, \* rows of table "integrations"
    tables,      \* rows of table "tables"
    reg,         \* the last POST /create: its form and its outcome
    notion_pages, \* the rows of the upstream table, as the service holds them now
    syncs        \* the /data requests served side by side: where each one is in get_data

vars == <<elements, attributes, deleted, call, last, flt, qry, sch, integrations, tables, reg,
          notion_pages, syncs>>

----------------------------------------------------------------------------
(* Bounds of the model *)

\* timestamps are the instants 1..MaxTime
MaxTime == 2
\* an upstream answer holds at most MaxRows rows (pages of one row each)
MaxRows == 2

Times == 1..MaxTime

\* external row identities handed out by upstream
NotionIds == {"r1", "r2"}

\* the registered Tables: the same upstream table registered under two
\* Integrations (two POST /create with different tokens), so both Tables
\* are served the same upstream rows
TableIds == {1, 2}

NULL == {}

----------------------------------------------------------------------------
(* Dates *)

Iso(local, tz) == [local |-> local, tz |-> tz]

\* isoparse(s).astimezone(timezone.utc): the instant in UTC
\* (a string without offset is read in the server's zone, taken to be UTC)
isoparse_utc(s) ==
    IF s.tz = NULL THEN s.local ELSE s.local - (CHOOSE o \in s.tz : TRUE)

\* isoparse, then astimezone(utc) only when the string carries an offset
parse_date(d) ==
    IF d.tz # NULL THEN d.local - (CHOOSE o \in d.tz : TRUE) ELSE d.local

\* datetime.isoformat() of a stored (naive, UTC) datetime
isoformat(dt) == Iso(dt, NULL)

\* astimezone(timezone.utc) raises OverflowError when the reading in UTC falls
\* before datetime.min: the instants are counted from datetime.min, instant 1
overflows(s) == isoparse_utc(s) < 1

----------------------------------------------------------------------------
(* Strings and JSON text *)

RECURSIVE join(_)
\* "".join(parts)
join(parts) ==
    IF parts = <<>> THEN <<>> ELSE Head(parts) \o join(Tail(parts))

\* the characters written as they are
json_escape_nothing(s) == s

RECURSIVE json_escape(_)
json_escape(s) ==
    IF s = <<>> THEN <<>>
    ELSE (IF Head(s) = "\"" THEN <<"\\", "\"">>
          ELSE IF Head(s) = "\\" THEN <<"\\", "\\">>
          ELSE <<Head(s)>>) \o json_escape(Tail(s))

\* json.dumps of a str
json_dumps_str(s) == <<"\"">> \o json_escape(s) \o <<"\"">>

RECURSIVE json_dumps_items(_)
json_dumps_items(l) ==
    IF l = <<>> THEN <<>>
    ELSE IF Len(l) = 1 THEN json_dumps_str(Head(l))
    ELSE json_dumps_str(Head(l)) \o <<",", " ">> \o json_dumps_items(Tail(l))

\* json.dumps of a list of str
json_dumps_list(l) == <<"[">> \o json_dumps_items(l) \o <<"]">>

RECURSIVE json_loads_scan(_, _, _, _)
\* the scan of json.loads over the text after "[": mode is "first" (a string
\* or the end of the list), "value" (a string), "string" (inside a string) or
\* "after" (a comma or the end of the list); {} is JSONDecodeError
json_loads_scan(text, mode, current, acc) ==
    IF text = <<>> THEN {}
    ELSE LET c == Head(text)
             rest == Tail(text)
         IN  IF mode = "string"
             THEN IF c = "\"" THEN json_loads_scan(rest, "after", <<>>, Append(acc, current))
                  ELSE IF c = "\\"
                  THEN IF rest # <<>> /\ Head(rest) \in {"\"", "\\"}
                       THEN json_loads_scan(Tail(rest), "string", Append(current, Head(rest)), acc)
                       ELSE {}
                  ELSE json_loads_scan(rest, "string", Append(current, c), acc)
             ELSE IF c = " " THEN json_loads_scan(rest, mode, current, acc)
             ELSE IF c = "\"" /\ mode \in {"first", "value"}
             THEN json_loads_scan(rest, "string", <<>>, acc)
             ELSE IF c = "," /\ mode = "after" THEN json_loads_scan(rest, "value", current, acc)
             ELSE IF c = "]" /\ mode \in {"first", "after"} /\ rest = <<>> THEN {acc}
             ELSE {}

\* json.loads of the text of a list of str: {the list}, or {} when the text
\* is not one
json_loads_list(text) ==
    IF text # <<>> /\ Head(text) = "[" THEN json_loads_scan(Tail(text), "first", <<>>, <<>>)
    ELSE {}

----------------------------------------------------------------------------
(* Attribute rows *)

\* models.Attribute(**kwargs) with only name, type and element_id given
BlankAttribute(name, attr_type, element_id) ==
    [name |-> name, type |-> attr_type, element_id |-> element_id,
     value_bool |-> NULL, value_date |-> NULL, value_number |-> NULL, value_string |-> NULL,
     is_bool |-> FALSE, is_date |-> FALSE, is_number |-> FALSE, is_string |-> FALSE,
     is_multistring |-> FALSE]

\* An absent text kept as the empty string
AsStringNeverNull(base, v) ==
    [base EXCEPT !.value_string = IF v = NULL THEN {<<>>} ELSE v, !.is_string = TRUE]

AsString(base, v)      == [base EXCEPT !.value_string = v, !.is_string = TRUE]
AsMultistring(base, v) == [base EXCEPT !.value_string = v, !.is_multistring = TRUE]
AsDate(base, v)        == [base EXCEPT !.value_date = v, !.is_date = TRUE]

Range(f) == {f[x] : x \in DOMAIN f}

\* [x[key] for x in items]
Pluck(items, key) == [i \in 1..Len(items) |-> items[i][key]]

RECURSIVE notion_attr_to_db_attr(_, _, _, _)
\* The DB row for one upstream property: {} when the property is not stored
notion_attr_to_db_attr(name, attr, element_id, attr_type) ==
    LET ty   == IF attr_type = NULL THEN attr.type ELSE CHOOSE x \in attr_type : TRUE
        base == BlankAttribute(name, ty, element_id)
    IN  CASE attr.type = "title" ->
               {AsString(base, IF attr.title # <<>> THEN {join(Pluck(attr.title, "plain_text"))} ELSE NULL)}
          [] attr.type = "checkbox" ->
               {[base EXCEPT !.value_bool = {attr.checkbox}, !.is_bool = TRUE]}
          [] attr.type = "rich_text" ->
               {AsString(base, IF attr.rich_text # <<>>
                               THEN {join(Pluck(attr.rich_text, "plain_text"))} ELSE NULL)}
          [] attr.type = "string" ->
               {AsString(base, attr.string)}
          [] attr.type = "number" ->
               {[base EXCEPT !.value_number = attr.number, !.is_number = TRUE]}
          [] attr.type = "select" ->
               {AsString(base, IF attr.select # NULL
                               THEN {(CHOOSE x \in attr.select : TRUE).name} ELSE NULL)}
          [] attr.type = "multi_select" ->
               {AsMultistring(base, IF attr.multi_select # <<>>
                                    THEN {json_dumps_list(Pluck(attr.multi_select, "name"))} ELSE NULL)}
          [] attr.type = "people" ->
               {AsMultistring(base, IF attr.people # <<>>
                                    THEN {json_dumps_list(Pluck(attr.people, "id"))} ELSE NULL)}
          [] attr.type = "files" ->
               {AsMultistring(base, IF attr.files # <<>>
                                    THEN {json_dumps_list(Pluck(attr.files, "name"))} ELSE NULL)}
          [] attr.type = "status" ->
               {AsString(base, {attr.status.name})}
          [] attr.type = "date" ->
               {AsDate(base, IF attr.date # NULL
                             THEN {parse_date((CHOOSE x \in attr.date : TRUE).start)} ELSE NULL)}
          [] attr.type = "url" ->
               {AsString(base, IF attr.url \notin {NULL, {<<>>}} THEN attr.url ELSE NULL)}
          [] attr.type = "email" ->
               {AsString(base, IF attr.email \notin {NULL, {<<>>}} THEN attr.email ELSE NULL)}
          [] attr.type = "phone_number" ->
               {AsString(base, IF attr.phone_number \notin {NULL, {<<>>}} THEN attr.phone_number ELSE NULL)}
          [] attr.type = "formula" ->
               notion_attr_to_db_attr(name, attr.formula, element_id, {"formula"})
          [] attr.type \in {"relation", "rollup"} ->
               {}
          [] attr.type = "created_time" ->
               {AsDate(base, {parse_date(attr.created_time)})}
          [] attr.type = "created_by" ->
               {AsString(base, {attr.created_by.id})}
          [] attr.type = "last_edited_time" ->
               {AsDate(base, {parse_date(attr.last_edited_time)})}
          [] attr.type = "last_edited_by" ->
               {AsString(base, {attr.last_edited_by.id})}
          [] OTHER ->
               {base}

----------------------------------------------------------------------------
(* The store and the session's open transaction *)

\* A session is [elements, attributes, deleted]: the committed rows, and the
\* attribute rows deleted in the open transaction but not yet committed.
Session(elems, attrs) == [elements |-> elems, attributes |-> attrs, deleted |-> {}]

\* the attribute rows a query of this session sees
visible_attributes(db) == db.attributes \ db.deleted

\* db.commit()
commit(db) == [db EXCEPT !.attributes = db.attributes \ db.deleted, !.deleted = {}]

\* db.close(): the open transaction is rolled back
close(db) == [db EXCEPT !.deleted = {}]

\* an unused primary key for a new Element
new_element_id(elems) ==
    CHOOSE i \in 1..(Cardinality(elems) + 1) :
        /\ \A e \in elems : e.id # i
        /\ \A j \in 1..(i - 1) : \E e \in elems : e.id = j

\* The query without its filter on the Table
last_element_of_any_table(elems, table_id) ==
    IF elems = {} THEN {NULL}
    ELSE {{e} : e \in {x \in elems : \A y \in elems : y.last_edited <= x.last_edited}}

\* every result .first() may give for the query: {} is None
last_table_element(elems, table_id) ==
    LET own == {e \in elems : e.table_id = table_id}
    IN  IF own = {} THEN {NULL}
        ELSE {{e} : e \in {x \in own : \A y \in own : y.last_edited <= x.last_edited}}

\* The reset deleting nothing
delete_no_element(db, table_id) == db

\* The bulk delete with no cascade to the attributes
delete_elements_without_cascade(db, table_id) ==
    commit([db EXCEPT !.elements = {e \in @ : e.table_id # table_id}])

delete_elements_of_table(db, table_id) ==
    LET gone == {e \in db.elements : e.table_id = table_id}
        ids  == {e.id : e \in gone}
    IN  commit([db EXCEPT !.elements = @ \ gone,
                          \* ON DELETE CASCADE of attributes.element_id
                          !.attributes = {a \in @ : a.element_id \notin ids}])

\* The lookup finding nothing
get_element_never_found(db, notion_id) == NULL

\* notion_id is a unique column: at most one row matches
get_element_by_notion_id(db, notion_id) ==
    LET found == {e \in db.elements : e.notion_id = notion_id}
    IN  IF found = {} THEN NULL ELSE {CHOOSE e \in found : TRUE}

create_attribute(db, name, attr, element_id) ==
    LET db_attr == notion_attr_to_db_attr(name, attr, element_id, NULL)
    IN  IF db_attr = {} THEN db
        ELSE [db EXCEPT !.attributes = (db.attributes \ db.deleted) \cup db_attr,
                        !.deleted = {}]

RECURSIVE create_attributes(_, _, _, _)
\* for name, attr in attributes.items(): create_attribute(db, name, attr, element_id)
create_attributes(db, props, names, element_id) ==
    IF names = {} THEN db
    ELSE LET name == CHOOSE n \in names : TRUE
         IN  create_attributes(create_attribute(db, name, props[name], element_id),
                               props, names \ {name}, element_id)

\* The Element row alone, its attributes forgotten
create_element_without_attributes(db, notion_id, table_id, last_edited, props) ==
    commit([db EXCEPT !.elements = @ \cup
              {[id |-> new_element_id(db.elements), table_id |-> table_id,
                notion_id |-> notion_id, last_edited |-> isoparse_utc(last_edited)]}])

create_element(db, notion_id, table_id, last_edited, props) ==
    LET db_element == [id |-> new_element_id(db.elements), table_id |-> table_id,
                       notion_id |-> notion_id, last_edited |-> isoparse_utc(last_edited)]
        added == commit([db EXCEPT !.elements = @ \cup {db_element}])
    IN  create_attributes(added, props, DOMAIN props, db_element.id)

update_element(db, db_element, last_edited, props) ==
    LET edited  == [db_element EXCEPT !.last_edited = isoparse_utc(last_edited)]
        updated == commit([db EXCEPT !.elements = (@ \ {db_element}) \cup {edited}])
        \* bulk delete of the Element's attributes, left in the open transaction
        cleared == [updated EXCEPT
                       !.deleted = {a \in updated.attributes : a.element_id = db_element.id}]
    IN  create_attributes(cleared, props, DOMAIN props, db_element.id)

\* The iteration moving a found Element to the Table being synced
sync_element_taking_over(db, element, table_id) ==
    LET db_element == get_element_by_notion_id(db, element.id)
        found == CHOOSE e \in db_element : TRUE
        moved == [found EXCEPT !.table_id = table_id]
    IN  IF db_element = NULL
        THEN create_element(db, element.id, table_id, element.last_edited_time, element.properties)
        ELSE update_element([db EXCEPT !.elements = (@ \ {found}) \cup {moved}], moved,
                            element.last_edited_time, element.properties)

\* one iteration of "for element in all_elements"
sync_element(db, element, table_id) ==
    LET db_element == get_element_by_notion_id(db, element.id)
    IN  IF db_element = NULL
        THEN create_element(db, element.id, table_id, element.last_edited_time, element.properties)
        ELSE update_element(db, CHOOSE e \in db_element : TRUE,
                            element.last_edited_time, element.properties)

\* The loop applying no row
sync_no_elements(db, all_elements, table_id) == db

RECURSIVE sync_elements(_, _, _)
sync_elements(db, all_elements, table_id) ==
    IF all_elements = <<>> THEN db
    ELSE sync_elements(sync_element(db, Head(all_elements), table_id), Tail(all_elements), table_id)

----------------------------------------------------------------------------
(* Reading the cache *)

MAX_ELEMENTS == 100

\* attr.value of the row, tagged with the kind of list it is read from
attribute_value(a) ==
    IF a.is_bool THEN [boolean |-> a.value_bool]
    ELSE IF a.is_date THEN [date |-> a.value_date]
    ELSE IF a.is_number THEN [number |-> a.value_number]
    ELSE IF a.is_string THEN [string |-> a.value_string]
    ELSE [multistring |-> a.value_string]

has_kind(a) == a.is_bool \/ a.is_date \/ a.is_number \/ a.is_string \/ a.is_multistring

\* attributes[attr.name] = attr.value over the rows of the five kinds
attributes_dict(rows) ==
    LET kinded == {a \in rows : has_kind(a)}
    IN  [n \in {a.name : a \in kinded} |-> attribute_value(CHOOSE a \in kinded : a.name = n)]

\* the dictionary built for one Element
element_data(db, element_id) ==
    attributes_dict({a \in visible_attributes(db) : a.element_id = element_id})

\* The first MAX_ELEMENTS Elements returned, nothing raised
extract_data_truncated(db, table_id) ==
    LET db_elements == {e \in db.elements : e.table_id = table_id}
        kept == IF Cardinality(db_elements) <= MAX_ELEMENTS THEN db_elements
                ELSE CHOOSE s \in {db_elements \ {e} : e \in db_elements} :
                        Cardinality(s) <= MAX_ELEMENTS
        data == {element_data(db, e.id) : e \in kept}
    IN  {[d \in data |-> Cardinality({e \in kept : element_data(db, e.id) = d})]}

\* the list returned, as a bag of dictionaries (one per Element); {} when
\* TooMuchElements is raised
extract_data_from_db(db, table_id) ==
    LET db_elements == {e \in db.elements : e.table_id = table_id}
        data == {element_data(db, e.id) : e \in db_elements}
    IN  IF Cardinality(db_elements) > MAX_ELEMENTS THEN NULL
        ELSE {[d \in data |->
                 Cardinality({e \in db_elements : element_data(db, e.id) = d})]}

----------------------------------------------------------------------------
(* The filter compiler: crud.make_condition and crud.create_db_filter *)

BOOL == "boolean"
DATE == "date"
NUMBER == "number"
\* STRING of crud.py (the name is taken in TLA+)
STRING_KIND == "string"
MULTISTRING == "multistring"

\* JSON values of a filter descriptor: [boolean |-> b], [number |-> n],
\* [string |-> chars], [isostring |-> Iso(..)] (a string in ISO-8601 format),
\* [null |-> TRUE], [array |-> <<..>>], [object |-> <<<<key, value>>, ..>>]
\* (a dict keeps the order of its keys).
json_is_bool(value)   == DOMAIN value = {"boolean"}
json_is_number(value) == DOMAIN value = {"number"}
json_is_str(value)    == DOMAIN value \in {{"string"}, {"isostring"}}
json_is_list(value)   == DOMAIN value = {"array"}
json_is_dict(value)   == DOMAIN value = {"object"}

Digit(n) == CASE n = 0 -> "0" [] n = 1 -> "1" [] n = 2 -> "2" [] n = 3 -> "3" [] n = 4 -> "4"
              [] n = 5 -> "5" [] n = 6 -> "6" [] n = 7 -> "7" [] n = 8 -> "8" [] OTHER -> "9"

\* the characters of a str
str_text(value) ==
    IF "string" \in DOMAIN value THEN value.string
    ELSE <<"T", Digit(value.isostring.local)>>
         \o (IF value.isostring.tz = NULL THEN <<>>
             ELSE <<"+", Digit(CHOOSE o \in value.isostring.tz : TRUE)>>)

Str(chars) == [string |-> chars]

\* exceptions and results
WrongFilter(detail) == [raised |-> "WrongFilter", detail |-> detail]
Raised(exception)   == [raised |-> exception, detail |-> ""]
Condition(prop, op, value) ==
    [raised |-> "none", detail |-> "",
     condition |-> [column |-> prop, op |-> op, value |-> value]]

\* expected_types ignored: a bool passes for an int, as with isinstance
isinstance_of_expected_types(value, prop_type) ==
    CASE prop_type = BOOL -> json_is_bool(value)
      [] prop_type = NUMBER -> json_is_number(value) \/ json_is_bool(value)
      [] prop_type = STRING_KIND -> json_is_str(value)
      [] prop_type = DATE -> DOMAIN value = {"datetime"}
      [] OTHER -> json_is_str(value)

\* type(value) in expected_types
type_in_expected_types(value, prop_type) ==
    CASE prop_type = BOOL -> json_is_bool(value)
      [] prop_type = NUMBER -> json_is_number(value)
      [] prop_type = STRING_KIND -> json_is_str(value)
      [] prop_type = DATE -> DOMAIN value = {"datetime"}
      [] OTHER -> json_is_str(value)

\* the value after the conversions at the head of make_condition
converted_value(op, value, prop_type) ==
    IF prop_type = DATE /\ op \notin {"is_empty", "past", "next", "this"}
    THEN \* isoparse(value).astimezone(timezone.utc), ValueError caught
         IF DOMAIN value # {"isostring"}
         THEN WrongFilter("Given value for date is not a valid date")
         ELSE IF overflows(value.isostring)
         THEN Raised("OverflowError")
         ELSE [raised |-> "none", value |-> [datetime |-> isoparse_utc(value.isostring)]]
    ELSE IF prop_type = MULTISTRING /\ op # "is_empty"
    THEN IF ~json_is_str(value)
         THEN WrongFilter("expected a value of type")
         ELSE [raised |-> "none", value |-> Str(json_dumps_str(str_text(value)))]
    ELSE [raised |-> "none", value |-> value]

TimeWindows == {Str(<<"w", "e", "e", "k">>), Str(<<"m", "o", "n", "t", "h">>),
                Str(<<"y", "e", "a", "r">>)}

make_condition(prop, op, value, prop_type) ==
    LET converted == converted_value(op, value, prop_type)
        v == converted.value
    IN  IF converted.raised # "none" THEN converted
        ELSE CASE op \in {"is", "is_not"} ->
                    IF prop_type = MULTISTRING
                    THEN WrongFilter("Multi-string attribute can't use")
                    ELSE IF ~type_in_expected_types(v, prop_type)
                    THEN WrongFilter("expected a value of type")
                    ELSE Condition(prop, op, v)
               [] op = "is_empty" ->
                    IF prop_type = BOOL
                    THEN WrongFilter("Boolean attribute can never be empty")
                    ELSE IF ~json_is_bool(v)
                    THEN WrongFilter("expected a value of type boolean")
                    ELSE Condition(prop, op, v)
               [] op \in {"after", "on_or_after", "before", "on_or_before", "past", "next", "this"} ->
                    IF prop_type # DATE
                    THEN WrongFilter("can only be applied to Date attributes")
                    ELSE IF op \in {"past", "next", "this"} /\ v \notin TimeWindows
                    THEN WrongFilter("Unknown time window")
                    ELSE Condition(prop, op, v)
               [] op \in {"greater_than", "less_than", "greater_or_equal", "less_or_equal"} ->
                    IF prop_type # NUMBER
                    THEN WrongFilter("can only be applied to number attributes")
                    ELSE IF ~type_in_expected_types(v, prop_type)
                    THEN WrongFilter("expected a value of type")
                    ELSE Condition(prop, op, v)
               [] op \in {"starts_with", "ends_with"} ->
                    IF prop_type # STRING_KIND
                    THEN WrongFilter("can only be applied to string attributes")
                    ELSE IF ~type_in_expected_types(v, prop_type)
                    THEN WrongFilter("expected a value of type")
                    ELSE Condition(prop, op, v)
               [] op \in {"contains", "does_not_contain"} ->
                    IF prop_type # STRING_KIND /\ prop_type # MULTISTRING
                    THEN WrongFilter("can only be applied to string or multi-strings attributes")
                    ELSE IF ~type_in_expected_types(v, prop_type)
                    THEN WrongFilter("expected a value of type")
                    ELSE Condition(prop, op, v)
               [] op = "contains_only" ->
                    IF prop_type # MULTISTRING
                    THEN WrongFilter("can only be applied to multi-strings attributes")
                    ELSE Condition(prop, "is", Str(<<"[">> \o str_text(v) \o <<"]">>))
               [] OTHER ->
                    WrongFilter("Unknown filter condition")

\* a dict as the sequence of its (key, value) pairs
dict_has(d, key) == \E i \in 1..Len(d) : d[i][1] = key
dict_get(d, key) == d[CHOOSE i \in 1..Len(d) : d[i][1] = key][2]

RECURSIVE attr_conditions(_, _, _)
\* for op, value in attr_filter.items(): make_condition(column, op, value, kind)
attr_conditions(prop, items, prop_type) ==
    IF items = <<>> THEN [raised |-> "none", detail |-> "", conditions |-> <<>>]
    ELSE LET c == make_condition(prop, Head(items)[1], Head(items)[2], prop_type)
         IN  IF c.raised # "none" THEN c
             ELSE LET rest == attr_conditions(prop, Tail(items), prop_type)
                  IN  IF rest.raised # "none" THEN rest
                      ELSE [rest EXCEPT !.conditions = <<c.condition>> \o @]

\* The schema read from every Element of the Table
db_attributes_of_table(db, db_element) ==
    {a \in visible_attributes(db) :
        \E e \in db.elements : e.table_id = db_element.table_id /\ a.element_id = e.id}

\* {attr.name: attr for attr in db_element.attributes}, as the rows
db_attributes(db, db_element) ==
    {a \in visible_attributes(db) : a.element_id = db_element.id}

\* the conditions on one attribute of the filter: the column and kind follow
\* the flags of the reference row; a row with no flag set adds no condition
attr_filter_conditions(db_attr, attr_filter) ==
    LET kind == IF db_attr.is_bool THEN <<"value_bool", BOOL>>
                ELSE IF db_attr.is_number THEN <<"value_number", NUMBER>>
                ELSE IF db_attr.is_string THEN <<"value_string", STRING_KIND>>
                ELSE IF db_attr.is_date THEN <<"value_date", DATE>>
                ELSE IF db_attr.is_multistring THEN <<"value_string", MULTISTRING>>
                ELSE <<>>
    IN  IF kind = <<>> THEN attr_conditions("none", <<>>, "none")
        \* attr_filter.items() of a value that is no dict
        ELSE IF ~json_is_dict(attr_filter) THEN Raised("AttributeError")
        ELSE attr_conditions(kind[1], attr_filter.object, kind[2])

RECURSIVE and_attributes(_, _)
\* for attr_name, attr_filter in filter.items(): ... ; and_(*db_elem_conditions)
and_attributes(schema, items) ==
    IF items = <<>> THEN [raised |-> "none", detail |-> "", conditions |-> <<>>]
    ELSE LET attr_name   == Head(items)[1]
             attr_filter == Head(items)[2]
         IN  IF \A a \in schema : a.name # attr_name
             THEN WrongFilter("Unknown attribute")
             ELSE IF json_is_list(attr_filter)
             THEN WrongFilter("Received a list instead of a dict")
             ELSE LET c == attr_filter_conditions(CHOOSE a \in schema : a.name = attr_name,
                                                  attr_filter)
                  IN  IF c.raised # "none" THEN c
                      ELSE LET rest == and_attributes(schema, Tail(items))
                           IN  IF rest.raised # "none" THEN rest
                               ELSE [rest EXCEPT !.conditions =
                                        <<[name |-> attr_name, all |-> c.conditions]>> \o @]

RECURSIVE or_clauses(_, _, _, _)
RECURSIVE create_db_filter(_, _, _, _)

\* [create_db_filter(db, table_id, clause, db_element) for clause in filter["or"]]
or_clauses(db, table_id, clauses, db_element) ==
    IF clauses = <<>> THEN [raised |-> "none", detail |-> "", conditions |-> <<>>]
    ELSE LET clause == Head(clauses)
             c == IF json_is_dict(clause)
                  THEN create_db_filter(db, table_id, {clause.object}, db_element)
                  ELSE IF DOMAIN clause = {"null"}
                  THEN create_db_filter(db, table_id, NULL, db_element)
                  \* "or" in clause, clause.items() of a value that is no dict
                  ELSE IF json_is_bool(clause) \/ json_is_number(clause)
                  THEN Raised("TypeError")
                  ELSE Raised("AttributeError")
         IN  IF c.raised # "none" THEN c
             ELSE LET rest == or_clauses(db, table_id, Tail(clauses), db_element)
                  IN  IF rest.raised # "none" THEN rest
                      ELSE [rest EXCEPT !.conditions = <<c.filter>> \o @]

\* filter: {} (None) or {dict}; db_element: {} (None) or {row}.
\* The result: what is raised, or the filter built ({} for None).
create_db_filter(db, table_id, filter, db_element) ==
    IF filter = NULL \/ db_element = NULL
    THEN [raised |-> "none", detail |-> "", filter |-> NULL]
    ELSE LET f   == CHOOSE x \in filter : TRUE
             ref == CHOOSE e \in db_element : TRUE
         IN  IF dict_has(f, "or") /\ json_is_list(dict_get(f, "or"))
             THEN LET c == or_clauses(db, table_id, dict_get(f, "or").array, db_element)
                  IN  IF c.raised # "none" THEN c
                      ELSE [raised |-> "none", detail |-> "", filter |-> {[any |-> c.conditions]}]
             ELSE LET c == and_attributes(db_attributes(db, ref), f)
                  IN  IF c.raised # "none" THEN c
                      ELSE [raised |-> "none", detail |-> "", filter |-> {[every |-> c.conditions]}]

----------------------------------------------------------------------------
(* The calendar of the relative windows of crud.make_condition *)

\* instants in a day (an instant is 24/DayLength hours; tz offsets are instants)
DayLength == 2

\* the proleptic Gregorian calendar from 0001-01-01, a Monday, up to the first
\* leap year (0004)
MonthLengths == <<31, 28, 31, 30, 31, 30, 31, 31, 30, 31, 30, 31>>

RECURSIVE DaysBefore(_)
\* days of the year before the first of month m (m = 13: the year's length)
DaysBefore(m) == IF m = 1 THEN 0 ELSE DaysBefore(m - 1) + MonthLengths[m - 1]

YearLength == DaysBefore(13)

\* the fields of a datetime: year (from 0), month, day (from 1), time of day
dt_day(t)   == (t - 1) \div DayLength
dt_clock(t) == (t - 1) % DayLength
dt_year(t)  == dt_day(t) \div YearLength
dt_month(t) ==
    CHOOSE m \in 1..12 : /\ DaysBefore(m) <= dt_day(t) % YearLength
                         /\ dt_day(t) % YearLength < DaysBefore(m + 1)
dt_dom(t)   == (dt_day(t) % YearLength) - DaysBefore(dt_month(t)) + 1

\* datetime(year, month, day, time of day)
datetime(y, m, d, c) == ((y * YearLength + DaysBefore(m) + d - 1) * DayLength) + c + 1

\* today.weekday(): Monday is 0
weekday(t) == dt_day(t) % 7

\* now.replace(hour=0, minute=0, second=0, microsecond=0)
midnight(t) == t - dt_clock(t)

Min(a, b) == IF a < b THEN a ELSE b

\* t + relativedelta(months=k), k in {-1, 1}: the day is clipped to the month's end
add_months(t, k) ==
    LET m0 == dt_month(t) + k
        y  == IF m0 < 1 THEN dt_year(t) - 1 ELSE IF m0 > 12 THEN dt_year(t) + 1 ELSE dt_year(t)
        m  == IF m0 < 1 THEN 12 ELSE IF m0 > 12 THEN 1 ELSE m0
    IN  datetime(y, m, Min(dt_dom(t), MonthLengths[m]), dt_clock(t))

\* t + k * relativedelta(<window>=1), k in {-1, 1}
add_window(t, window, k) ==
    CASE window = Str(<<"w", "e", "e", "k">>) -> t + k * 7 * DayLength
      [] window = Str(<<"m", "o", "n", "t", "h">>) -> add_months(t, k)
      [] OTHER -> t + k * YearLength * DayLength

\* the bounds given to prop.between(..) by "past", "next" and "this"
window_bounds(op, window, now) ==
    CASE op = "past" -> <<add_window(now, window, -1), now>>
      [] op = "next" -> <<now, add_window(now, window, 1)>>
      [] OTHER ->
           LET today == midnight(now)
               start == CASE window = Str(<<"w", "e", "e", "k">>) ->
                               today - weekday(today) * DayLength
                          [] window = Str(<<"m", "o", "n", "t", "h">>) ->
                               datetime(dt_year(today), dt_month(today), 1, 0)
                          [] OTHER -> datetime(dt_year(today), 1, 1, 0)
           IN  <<start, add_window(start, window, 1)>>

\* x BETWEEN lo AND hi
sql_between_half_open(x, lo, hi) == lo <= x /\ x < hi
sql_between(x, lo, hi) == lo <= x /\ x <= hi

----------------------------------------------------------------------------
(* The conditions as the database evaluates them (SQLite, the database of
   the tests and of the default profile) *)

\* LIKE compares ASCII letters without case
sql_lower(c) == CASE c = "X" -> "x" [] c = "Y" -> "y" [] OTHER -> c

RECURSIVE sql_like(_, _)
\* text LIKE pattern: % is any run of characters, _ any one character
sql_like(text, pattern) ==
    IF pattern = <<>> THEN text = <<>>
    ELSE IF Head(pattern) = "%"
    THEN sql_like(text, Tail(pattern)) \/ (text # <<>> /\ sql_like(Tail(text), pattern))
    ELSE /\ text # <<>>
         /\ (Head(pattern) = "_" \/ sql_lower(Head(text)) = sql_lower(Head(pattern)))
         /\ sql_like(Tail(text), Tail(pattern))

\* the bound parameter for a value of the descriptor
bind_value(value) ==
    CASE DOMAIN value = {"boolean"} -> value.boolean
      [] DOMAIN value = {"number"} -> value.number
      [] DOMAIN value = {"datetime"} -> value.datetime
      [] OTHER -> str_text(value)

\* a comparison with NULL on either side is NULL and selects nothing: prop != value
\* taken to hold of a row without value
condition_is_true_python(condition, a, now) ==
    LET col == a[condition.column]
    IN  CASE condition.op = "is_empty" -> IF condition.value.boolean THEN col = NULL ELSE col # NULL
          [] condition.op \in {"is_not", "does_not_contain"} /\ col = NULL -> TRUE
          [] col = NULL -> FALSE
          [] OTHER -> LET x == CHOOSE x \in col : TRUE
                      IN  CASE condition.op = "is" -> x = bind_value(condition.value)
                            [] condition.op = "is_not" -> x # bind_value(condition.value)
                            [] OTHER -> ~sql_like(x, <<"%">> \o bind_value(condition.value) \o <<"%">>)

\* whether the condition make_condition returned is true of attribute row a
condition_is_true(condition, a, now) ==
    LET col == a[condition.column]
        op  == condition.op
    IN  CASE op = "is_empty" -> IF condition.value.boolean THEN col = NULL ELSE col # NULL
          [] col = NULL -> FALSE
          [] OTHER ->
               LET x == CHOOSE x \in col : TRUE
                   v == bind_value(condition.value)
               IN  CASE op = "is" -> x = v
                     [] op = "is_not" -> x # v
                     [] op \in {"after", "greater_than"} -> x > v
                     [] op \in {"on_or_after", "greater_or_equal"} -> x >= v
                     [] op \in {"before", "less_than"} -> x < v
                     [] op \in {"on_or_before", "less_or_equal"} -> x <= v
                     [] op \in {"past", "next", "this"} ->
                          LET bounds == window_bounds(op, condition.value, now)
                          IN  sql_between(x, bounds[1], bounds[2])
                     [] op = "starts_with" -> sql_like(x, v \o <<"%">>)
                     [] op = "ends_with" -> sql_like(x, <<"%">> \o v)
                     [] op = "contains" -> sql_like(x, <<"%">> \o v \o <<"%">>)
                     [] op = "does_not_contain" -> ~sql_like(x, <<"%">> \o v \o <<"%">>)
                     [] OTHER -> FALSE

RECURSIVE filter_is_true(_, _, _)
\* whether the filter create_db_filter returned is true of an Element with
\* these attribute rows: Element.attributes.any(and_(name == .., ..)) for every
\* attribute named, or_ of the clauses (a clause that compiled to None is NULL)
filter_is_true(db_filter, rows, now) ==
    IF "every" \in DOMAIN db_filter
    THEN \A named \in Range(db_filter.every) :
            \E a \in rows :
               /\ a.name = named.name
               /\ \A condition \in Range(named.all) : condition_is_true(condition, a, now)
    ELSE \/ db_filter.any = <<>>
         \/ \E clause \in Range(db_filter.any) :
               \E f \in clause : filter_is_true(f, rows, now)

----------------------------------------------------------------------------
(* The query: crud.create_base_db_query and crud.get_attributes_of_table *)

\* calculate and group_by: {} is None, {x} the string given

\* The checks without the one on a group_by sent alone
create_base_db_query_ungrouped(db, table_id, calculate, group_by) ==
    IF calculate = NULL THEN Raised("none")
    ELSE IF calculate \subseteq {"sum", "min", "max", "average", "count", "count_unique"}
    THEN Raised("none")
    ELSE WrongFilter("Unknown calculate function")

\* the checks of create_base_db_query on the two descriptors
create_base_db_query(db, table_id, calculate, group_by) ==
    IF group_by = NULL /\ calculate = NULL THEN Raised("none")
    ELSE IF calculate = NULL
    THEN WrongFilter("group_by without calculate")
    ELSE IF calculate \subseteq {"sum", "min", "max", "average", "count", "count_unique"}
    THEN Raised("none")
    ELSE WrongFilter("Unknown calculate function")

\* a value as a group_id; SQLite keeps a boolean as the number 0 or 1
group_value(a) ==
    LET v == IF a.is_bool THEN <<"boolean", a.value_bool>>
             ELSE IF a.is_date THEN <<"date", a.value_date>>
             ELSE IF a.is_number THEN <<"number", a.value_number>>
             ELSE IF a.is_string \/ a.is_multistring THEN <<"string", a.value_string>>
             ELSE <<"null", NULL>>
    IN  IF v[2] = NULL THEN [null |-> TRUE]
        ELSE IF v[1] = "boolean" THEN [number |-> IF TRUE \in v[2] THEN 1 ELSE 0]
        ELSE IF v[1] = "date" THEN [date |-> CHOOSE x \in v[2] : TRUE]
        ELSE IF v[1] = "number" THEN [number |-> CHOOSE x \in v[2] : TRUE]
        ELSE [string |-> CHOOSE x \in v[2] : TRUE]

\* the grouper subquery: (element_id, group_id) rows
grouper(db, table_id, group_by) ==
    IF group_by # NULL
    THEN {[element_id |-> a.element_id, group_id |-> group_value(a)] :
             a \in {x \in visible_attributes(db) :
                      /\ x.name \in group_by
                      /\ \E e \in db.elements : e.id = x.element_id /\ e.table_id = table_id}}
    ELSE {[element_id |-> a.element_id, group_id |-> [table |-> table_id]] :
             a \in {x \in visible_attributes(db) :
                      \E e \in db.elements : e.id = x.element_id /\ e.table_id = table_id}}

\* the values of a column over rows, and count(column), count(distinct column)
column_values(rows, column) == UNION {a[column] : a \in rows}
sql_count(rows, column) == Cardinality({a \in rows : a[column] # NULL})
sql_count_distinct(rows, column) == Cardinality(column_values(rows, column))

RECURSIVE sql_sum(_)
\* the sum of value_number over the rows that have one
sql_sum(rows) ==
    IF rows = {} THEN 0
    ELSE LET a == CHOOSE x \in rows : TRUE
         IN  (IF a.value_number = NULL THEN 0 ELSE CHOOSE x \in a.value_number : TRUE)
             + sql_sum(rows \ {a})

\* The mean taken over every row of the group
number_op_over_rows(calculate, rows) ==
    LET values == column_values(rows, "value_number")
    IN  IF values = NULL THEN NULL
        ELSE CASE calculate = {"sum"} -> {sql_sum(rows)}
               [] calculate = {"min"} -> {CHOOSE x \in values : \A y \in values : x <= y}
               [] calculate = {"max"} -> {CHOOSE x \in values : \A y \in values : y <= x}
               [] OTHER -> {[num |-> sql_sum(rows), den |-> Cardinality(rows)]}

\* NUMBER_OP[calculate](value_number): NULL when no row has a value; an
\* average is the ratio num / den
number_op(calculate, rows) ==
    LET values == column_values(rows, "value_number")
    IN  IF values = NULL THEN NULL
        ELSE CASE calculate = {"sum"} -> {sql_sum(rows)}
               [] calculate = {"min"} -> {CHOOSE x \in values : \A y \in values : x <= y}
               [] calculate = {"max"} -> {CHOOSE x \in values : \A y \in values : y <= x}
               [] OTHER -> {[num |-> sql_sum(rows),
                             den |-> sql_count(rows, "value_number")]}

\* The rows counted, with or without a value
count_rows(calculate, rows, column) == {Cardinality(rows)}

\* func.count(value) and func.count(value.distinct()) for a value column
count_column(calculate, rows, column) ==
    IF calculate = {"count"} THEN {sql_count(rows, column)}
    ELSE {sql_count_distinct(rows, column)}

\* case((count(column.distinct()) == 1, column), else_=None): column is read
\* from the row of the group the database picks for the bare columns
only_value(rows, bare, column) ==
    IF sql_count_distinct(rows, column) = 1 THEN bare[column] ELSE NULL

\* the result row of a group, its bare columns read from row bare
group_row(calculate, group_id, rows, bare) ==
    IF calculate \subseteq {"sum", "min", "max", "average"}
    THEN [bare EXCEPT !.element_id = group_id,
                      !.value_bool = only_value(rows, bare, "value_bool"),
                      !.value_date = only_value(rows, bare, "value_date"),
                      !.value_number = number_op(calculate, rows),
                      !.value_string = only_value(rows, bare, "value_string")]
    ELSE [bare EXCEPT !.element_id = group_id,
                      !.value_bool = count_column(calculate, rows, "value_bool"),
                      !.value_date = count_column(calculate, rows, "value_date"),
                      !.value_number = count_column(calculate, rows, "value_number"),
                      !.value_string = count_column(calculate, rows, "value_string")]

RECURSIVE one_of_each(_)
\* the sets with one member of each of the sets given
one_of_each(sets) ==
    IF sets = {} THEN {{}}
    ELSE LET s == CHOOSE x \in sets : TRUE
         IN  {{x} \cup rest : x \in s, rest \in one_of_each(sets \ {s})}

\* every result the query may give for the Elements selected: the attribute
\* rows, or a row per (name, group_id)
query_results(db, table_id, calculate, group_by, selected) ==
    LET rows == {a \in visible_attributes(db) : a.element_id \in selected}
    IN  IF calculate = NULL THEN {rows}
        ELSE LET groups == grouper(db, table_id, group_by)
                 keys   == {<<a.name, g.group_id>> : a \in rows, g \in groups}
                 of(k)  == {a \in rows : /\ a.name = k[1]
                                         /\ \E g \in groups : /\ g.element_id = a.element_id
                                                              /\ g.group_id = k[2]}
             IN  one_of_each({{group_row(calculate, k[2], of(k), bare) : bare \in of(k)} :
                                 k \in {x \in keys : of(x) # {}}})

\* query.limit(limit).all()
limited(rows, limit) ==
    IF Cardinality(rows) <= limit THEN {rows}
    ELSE {s \in SUBSET rows : Cardinality(s) = limit}

\* The results get_attributes_of_table may return, or what it raises.
\* db_element: the row last_table_element gave to create_db_filter.
get_attributes_of_table(db, table_id, calculate, filter, group_by, limit, db_element, now) ==
    CHOOSE got \in
        {IF query.raised # "none"
         THEN [raised |-> query.raised, detail |-> query.detail, db_filter |-> NULL, results |-> {}]
         ELSE IF built.raised # "none"
         THEN [raised |-> built.raised, detail |-> built.detail, db_filter |-> NULL, results |-> {}]
         ELSE [raised |-> "none", detail |-> "", db_filter |-> built.filter,
               results |->
                  UNION {limited(rows, limit) :
                     rows \in query_results(db, table_id, calculate, group_by,
                        {e.id : e \in {x \in db.elements :
                            /\ x.table_id = table_id
                            /\ \A f \in built.filter :
                                  filter_is_true(f, {a \in visible_attributes(db) :
                                                       a.element_id = x.id}, now)}})}]
         : query \in {create_base_db_query(db, table_id, calculate, group_by)},
           built \in {create_db_filter(db, table_id, filter, db_element)}} : TRUE

----------------------------------------------------------------------------
(* Upstream *)

\* the payloads upstream serves: a number, a number and a checkbox, and a
\* payload whose only property cannot be stored
Payloads ==
    { ("a" :> [type |-> "number", number |-> {1}]),
      ("a" :> [type |-> "number", number |-> {2}]) @@ ("b" :> [type |-> "checkbox", checkbox |-> TRUE]),
      ("b" :> [type |-> "relation"]) }

\* Notion timestamps carry the offset Z
UpstreamRows ==
    [id : NotionIds, last_edited_time : {Iso(t, {0}) : t \in Times}, properties : Payloads]

\* sequences of at most n of the rows, no row identity twice
RowSeqs(rows, n) ==
    UNION {{s \in [1..k -> rows] : \A i, j \in 1..k : i # j => s[i].id # s[j].id}
           : k \in 0..n}

\* what iterate_paginated_api delivers: every page (ok), or the pages received
\* before APIResponseError was raised on a later one
UpstreamAnswers ==
    {[ok |-> TRUE, rows |-> s] : s \in RowSeqs(UpstreamRows, MaxRows)}
    \cup {[ok |-> FALSE, rows |-> s] : s \in RowSeqs(UpstreamRows, MaxRows - 1)}

\* a page with one property of each of the five kinds, and a page of another
\* shape: a property no other page has, and "s" as a checkbox
TypedPayloads ==
    { ("b" :> [type |-> "checkbox", checkbox |-> TRUE])
        @@ ("n" :> [type |-> "number", number |-> {1}])
        @@ ("s" :> [type |-> "rich_text", rich_text |-> <<[plain_text |-> <<"x">>]>>])
        @@ ("d" :> [type |-> "date", date |-> {[start |-> Iso(1, {0})]}])
        @@ ("m" :> [type |-> "multi_select", multi_select |-> <<[name |-> <<"x">>]>>]),
      ("o" :> [type |-> "number", number |-> {1}])
        @@ ("s" :> [type |-> "checkbox", checkbox |-> TRUE]) }

TypedRows ==
    [id : NotionIds, last_edited_time : {Iso(t, {0}) : t \in Times}, properties : TypedPayloads]

TypedAnswers == {[ok |-> TRUE, rows |-> s] : s \in RowSeqs(TypedRows, MaxRows)}

----------------------------------------------------------------------------
(* notion_cache.get_data *)

\* update_cache taken to be always set
update_cache_always(reset_cache, update_cache) == TRUE

\* parameters.update_cache after the reset branch
update_cache_after_reset(reset_cache, update_cache) ==
    IF reset_cache THEN TRUE ELSE update_cache

\* filter_kwargs: {} is "no filter"
filter_kwargs(db_latest_element) ==
    IF db_latest_element # NULL
    THEN {isoformat((CHOOSE e \in db_latest_element : TRUE).last_edited)}
    ELSE NULL

\* The pages applied as they arrive, whatever happens on a later one
all_elements_received(answer) == answer.rows

\* the rows the loop at "for element in all_elements" runs over; the drain
\* raises before the loop when a page fails
all_elements(answer) == IF answer.ok THEN answer.rows ELSE <<>>

\* The handler: the session when it returns or raises, and the answer.
\* db_latest_element is the row last_table_element gave (when it was asked).
get_data(db, table_id, reset_cache, update_cache, db_latest_element, answer) ==
    LET reset   == IF reset_cache THEN delete_elements_of_table(db, table_id) ELSE db
        update  == update_cache_after_reset(reset_cache, update_cache)
        synced  == IF update THEN sync_elements(reset, all_elements(answer), table_id) ELSE reset
        failed  == update /\ ~answer.ok
        data    == IF failed THEN NULL ELSE extract_data_from_db(synced, table_id)
    IN  [db     |-> synced,
         called |-> update,
         filter |-> IF update THEN filter_kwargs(db_latest_element) ELSE NULL,
         status |-> IF failed THEN "APIResponseError"
                    ELSE IF data = NULL THEN "TooMuchElements" ELSE "ok",
         data   |-> data]

NoAnswer == [ok |-> TRUE, rows |-> <<>>]

NoRequest ==
    [table_id |-> 0, reset_cache |-> FALSE, update_cache |-> FALSE, answer |-> NoAnswer,
     found |-> {}, called |-> FALSE, filter |-> NULL, status |-> "none", data |-> NULL]

\* The record of one request. found: the row identities of the answer for
\* which get_element_by_notion_id found an Element (the rows updated).
Request(table_id, reset_cache, update_cache, answer, found, out) ==
    [table_id |-> table_id, reset_cache |-> reset_cache, update_cache |-> update_cache,
     answer |-> answer, found |-> found, called |-> out.called, filter |-> out.filter,
     status |-> out.status, data |-> out.data]

\* what is remembered of a request once it is over
Answered(request) ==
    [table_id |-> request.table_id,
     synced |-> request.called /\ request.status = "ok",
     data |-> request.data]

\* POST /{integration}/{table}/data, up to the response; answers: what upstream
\* may answer when it is asked
Serve(table_id, reset_cache, update_cache, answers) ==
    /\ call = NoRequest
    /\ \E answer \in (IF reset_cache \/ update_cache THEN answers ELSE {NoAnswer}) :
       \E db_latest_element \in
             (IF update_cache /\ ~reset_cache
              THEN last_table_element(elements, table_id) ELSE {NULL}) :
       \E out \in {get_data(Session(elements, attributes), table_id,
                            reset_cache, update_cache, db_latest_element, answer)} :
           /\ elements' = out.db.elements
           /\ attributes' = out.db.attributes
           /\ deleted' = out.db.deleted
           /\ call' = Request(table_id, reset_cache, update_cache, answer,
                              {r.id : r \in Range(all_elements(answer))}
                                \cap {e.notion_id : e \in {x \in elements :
                                        ~(reset_cache /\ x.table_id = table_id)}},
                              out)
    /\ UNCHANGED <<flt, qry, sch, integrations, tables, reg, notion_pages, syncs>>

GetData(table_id, reset_cache, update_cache) ==
    /\ Serve(table_id, reset_cache, update_cache, UpstreamAnswers)
    /\ UNCHANGED last

\* the same request, its answer kept for comparison with the next one
GetDataRemembered(table_id, reset_cache, update_cache) ==
    /\ Serve(table_id, reset_cache, update_cache, UpstreamAnswers)
    /\ last' = Answered(call')

\* get_db's "finally: db.close()" once the request is over
CloseSession ==
    /\ call # NoRequest
    /\ \E db \in {close([elements |-> elements, attributes |-> attributes, deleted |-> deleted])} :
           /\ deleted' = db.deleted
           /\ elements' = db.elements
           /\ attributes' = db.attributes
    /\ call' = NoRequest
    /\ UNCHANGED <<last, flt, qry, sch, integrations, tables, reg, notion_pages, syncs>>

NoFilter == [none |-> TRUE]

\* a sync of a Table whose upstream pages carry properties of every kind
GetDataTyped(table_id) ==
    /\ flt = NoFilter
    /\ Serve(table_id, FALSE, TRUE, TypedAnswers)
    /\ UNCHANGED last

\* The filter descriptors sent. One condition on one attribute:
FilterNames == {"b", "n", "s", "d", "m", "o", "z"}

Operators ==
    {"is", "is_not", "is_empty",
     "after", "on_or_after", "before", "on_or_before", "past", "next", "this",
     "greater_than", "less_than", "greater_or_equal", "less_or_equal",
     "starts_with", "ends_with", "contains", "does_not_contain", "contains_only",
     "matches"}

Operands ==
    {[boolean |-> TRUE], [number |-> 1], [null |-> TRUE], Str(<<"w", "e", "e", "k">>),
     [isostring |-> Iso(1, {0})], [isostring |-> Iso(1, {1})]}

Object(items) == [object |-> items]

OneCondition(name, op, value) == <<<<name, Object(<<<<op, value>>>>)>>>>

\* ... and descriptors with several conditions, several attributes, an "or"
\* list, and values that are no dict
ComposedFilters ==
    { <<<<"n", Object(<<<<"is", [number |-> 1]>>, <<"less_than", [boolean |-> TRUE]>>>>)>>>>,
      OneCondition("n", "is", [number |-> 1]) \o OneCondition("z", "is", [number |-> 1]),
      OneCondition("z", "is", [number |-> 1]) \o OneCondition("n", "is", [number |-> 1]),
      OneCondition("d", "starts_with", [isostring |-> Iso(1, {1})])
          \o OneCondition("z", "is", [number |-> 1]),
      <<<<"or", [array |-> <<Object(OneCondition("n", "is", [number |-> 1])),
                            Object(OneCondition("b", "is", [boolean |-> TRUE]))>>]>>>>,
      <<<<"or", [array |-> <<Object(OneCondition("n", "is", [number |-> 1])),
                            Object(OneCondition("z", "is", [number |-> 1]))>>]>>>>,
      <<<<"or", Object(<<<<"is", [number |-> 1]>>>>)>>>>,
      <<<<"n", [array |-> <<>>]>>>>,
      <<<<"n", [number |-> 1]>>>>,
      <<<<"n", Str(<<"x">>)>>>>,
      <<<<"n", [boolean |-> TRUE]>>>>,
      <<<<"n", [null |-> TRUE]>>>>,
      <<<<"or", [array |-> <<Str(<<"x">>)>>]>>>>,
      <<<<"or", [array |-> <<[number |-> 1]>>]>>>>,
      <<<<"or", [array |-> <<>>]>>>>,
      <<>> }

Filters ==
    {NULL}
    \cup {{OneCondition(name, op, value)} :
             name \in FilterNames, op \in Operators, value \in Operands}
    \cup {{f} : f \in ComposedFilters}

\* crud.create_db_filter for a request on the cache as it is (update_cache=false)
Compile ==
    /\ call = NoRequest
    /\ flt = NoFilter
    /\ \E table_id \in TableIds, filter \in Filters :
       \E db_element \in last_table_element(elements, table_id) :
       \E out \in {create_db_filter(Session(elements, attributes), table_id,
                                   filter, db_element)} :
           flt' = [table_id |-> table_id, filter |-> filter, db_element |-> db_element,
                   raised |-> out.raised, detail |-> out.detail]
    /\ UNCHANGED <<elements, attributes, deleted, call, last, qry, sch, integrations, tables, reg, notion_pages, syncs>>

\* the request that carried the filter is over
Respond ==
    /\ flt # NoFilter
    /\ flt' = NoFilter
    /\ UNCHANGED <<elements, attributes, deleted, call, last, qry, sch, integrations, tables, reg, notion_pages, syncs>>

----------------------------------------------------------------------------
(* The read step of a /data request: the rows of get_attributes_of_table
   turned into the answer *)

\* the cap on the attribute rows of an answer, scaled to the pages of the model
MAX_ATTRIBUTES == 12

\* the answer: for each Element (or group) of the rows, name -> value
rows_data(rows) ==
    [k \in {r.element_id : r \in rows} |-> attributes_dict({r \in rows : r.element_id = k})]

\* Every outcome of the read: one more row than the cap is asked for, and
\* TooMuchAttributes raised when it comes. raised, db_filter and rows are those
\* of get_attributes_of_table.
read_data(db, table_id, calculate, filter, group_by, db_element, now) ==
    UNION
      {IF got.raised # "none"
       THEN {[raised |-> got.raised, status |-> got.raised, detail |-> got.detail,
              db_filter |-> NULL, rows |-> {}, data |-> NULL]}
       ELSE {IF Cardinality(rows) > MAX_ATTRIBUTES
             THEN [raised |-> "none", status |-> "TooMuchAttributes", detail |-> "",
                   db_filter |-> got.db_filter, rows |-> rows, data |-> NULL]
             ELSE [raised |-> "none", status |-> "ok", detail |-> "",
                   db_filter |-> got.db_filter, rows |-> rows, data |-> {rows_data(rows)}]
             : rows \in got.results}
       : got \in {get_attributes_of_table(db, table_id, calculate, filter, group_by,
                                          MAX_ATTRIBUTES + 1, db_element, now)}}

NoQuery == [none |-> TRUE]

\* POST /{integration}/{table}/data with update_cache=false: the cache is read
\* as it is. queries: the (calculate, filter, group_by) descriptors sent;
\* nows: what the clock may show.
ReadData(queries, nows) ==
    /\ call = NoRequest
    /\ flt = NoFilter
    /\ qry = NoQuery
    /\ \E table_id \in TableIds, query \in queries, now \in nows :
       \E db_element \in last_table_element(elements, table_id) :
       \E out \in read_data(Session(elements, attributes), table_id, query.calculate,
                            query.filter, query.group_by, db_element, now) :
           qry' = [table_id |-> table_id, calculate |-> query.calculate,
                   filter |-> query.filter, group_by |-> query.group_by, now |-> now,
                   db_element |-> db_element,
                   raised |-> out.raised, status |-> out.status, detail |-> out.detail,
                   db_filter |-> out.db_filter, rows |-> out.rows, data |-> out.data]
    /\ UNCHANGED <<elements, attributes, deleted, call, last, flt, sch, integrations, tables, reg, notion_pages, syncs>>

\* the response is sent
Answer ==
    /\ qry # NoQuery
    /\ qry' = NoQuery
    /\ UNCHANGED <<elements, attributes, deleted, call, last, flt, sch, integrations, tables, reg, notion_pages, syncs>>

----------------------------------------------------------------------------
(* notion_cache.get_schema *)

\* what notion.databases.retrieve answers: the properties of the database,
\* name -> type, or APIResponseError
UpstreamSchemas ==
    { ("t" :> "title") @@ ("n" :> "number") @@ ("r" :> "relation") @@ ("l" :> "rollup"),
      ("t" :> "title") @@ ("s" :> "formula") }

SchemaAnswers ==
    {[ok |-> TRUE, properties |-> p] : p \in UpstreamSchemas}
    \cup {[ok |-> FALSE, properties |-> <<>>]}

NotAsked == [ok |-> TRUE, properties |-> <<>>]

\* the schema without the types Clothion does not support
supported(schema) ==
    [n \in {x \in DOMAIN schema : schema[x] \notin {"relation", "rollup"}} |-> schema[n]]

\* Upstream asked whatever the cache holds
get_schema_from_upstream(db, table_id, db_latest_element, upstream) ==
    IF ~upstream.ok THEN [called |-> TRUE, status |-> "APIResponseError", schema |-> NULL]
    ELSE [called |-> TRUE, status |-> "ok", schema |-> {supported(upstream.properties)}]

\* db_latest_element: the row last_table_element gave; upstream: the answer of
\* Notion when it is asked
get_schema(db, table_id, db_latest_element, upstream) ==
    IF db_latest_element = NULL
    THEN IF ~upstream.ok
         THEN [called |-> TRUE, status |-> "APIResponseError", schema |-> NULL]
         ELSE [called |-> TRUE, status |-> "ok", schema |-> {supported(upstream.properties)}]
    ELSE LET rows == {a \in visible_attributes(db) :
                        /\ a.element_id = (CHOOSE e \in db_latest_element : TRUE).id
                        /\ has_kind(a)}
         IN  [called |-> FALSE, status |-> "ok",
              schema |-> {supported([n \in {a.name : a \in rows} |->
                                       (CHOOSE a \in rows : a.name = n).type])}]

NoSchema == [none |-> TRUE]

\* GET /{integration}/{table}/schema
GetSchema ==
    /\ call = NoRequest
    /\ flt = NoFilter
    /\ qry = NoQuery
    /\ sch = NoSchema
    /\ \E table_id \in TableIds :
       \E db_latest_element \in last_table_element(elements, table_id) :
       \E upstream \in (IF db_latest_element = NULL THEN SchemaAnswers ELSE {NotAsked}) :
       \E out \in {get_schema(Session(elements, attributes), table_id,
                              db_latest_element, upstream)} :
           sch' = [table_id |-> table_id, db_latest_element |-> db_latest_element,
                   upstream |-> upstream, called |-> out.called, status |-> out.status,
                   schema |-> out.schema]
    /\ UNCHANGED <<elements, attributes, deleted, call, last, flt, qry, integrations, tables, reg, notion_pages, syncs>>

\* the schema is sent
SendSchema ==
    /\ sch # NoSchema
    /\ sch' = NoSchema
    /\ UNCHANGED <<elements, attributes, deleted, call, last, flt, qry, integrations, tables, reg, notion_pages, syncs>>

----------------------------------------------------------------------------
(* Registration: POST /create *)

\* the ids generate_random_id may give, scaled from 32 bits
MaxId == 3
Ids == 1..MaxId

Tokens == {"k1", "k2"}
ExternalTables == {"x1", "x2"}

\* generate_random_unique_id(uniq_fn): any id uniq_fn accepts
integration_ids(db_integrations) ==
    {i \in Ids : \A x \in db_integrations : x.id # i}

\* An id no Table of any Integration has
table_ids_unique_in_store(db_tables, integration_id) ==
    {i \in Ids : \A x \in db_tables : x.id # i}

\* ... for create_table: uniq_fn looks among the Tables of the Integration
table_ids(db_tables, integration_id) ==
    {i \in Ids : \A x \in db_tables : ~(x.integration_id = integration_id /\ x.id = i)}

\* create_table with id the random id drawn: the primary key of "tables" is id
create_table(db_tables, integration_id, table_id, id) ==
    IF \E x \in db_tables : x.id = id
    THEN [raised |-> "IntegrityError", tables |-> db_tables, table |-> NULL]
    ELSE LET db_table == [id |-> id, table_id |-> table_id, integration_id |-> integration_id]
         IN  [raised |-> "none", tables |-> db_tables \cup {db_table}, table |-> {db_table}]

\* Every outcome of the handler: the rows it leaves and the ids it redirects to
create(db_integrations, db_tables, integration, table) ==
    LET known == {x \in db_integrations : x.token = integration}
        Outcome(rows, made, db_integration) ==
            [integrations |-> rows, tables |-> made.tables, status |-> made.raised,
             integration_id |-> IF made.raised = "none" THEN {db_integration.id} ELSE NULL,
             table_id |-> {x.id : x \in made.table}]
    IN  IF known = {}
        THEN UNION {LET db_integration == [id |-> i, token |-> integration]
                    IN  {Outcome(db_integrations \cup {db_integration},
                                 create_table(db_tables, i, table, id), db_integration)
                         : id \in table_ids(db_tables, i)}
                    : i \in integration_ids(db_integrations)}
        ELSE LET db_integration == CHOOSE x \in known : TRUE
                 db_table == {x \in db_tables : /\ x.integration_id = db_integration.id
                                                /\ x.table_id = table}
             IN  IF db_table # {}
                 THEN {Outcome(db_integrations,
                               [raised |-> "none", tables |-> db_tables,
                                table |-> {CHOOSE x \in db_table : TRUE}], db_integration)}
                 ELSE {Outcome(db_integrations,
                               create_table(db_tables, db_integration.id, table, id),
                               db_integration)
                       : id \in table_ids(db_tables, db_integration.id)}

NoCreate ==
    [integration |-> "", table |-> "", status |-> "none", integration_id |-> NULL,
     table_id |-> NULL]

Create(integration, table) ==
    /\ \E out \in create(integrations, tables, integration, table) :
          /\ integrations' = out.integrations
          /\ tables' = out.tables
          /\ reg' = [integration |-> integration, table |-> table, status |-> out.status,
                     integration_id |-> out.integration_id, table_id |-> out.table_id]
    /\ UNCHANGED <<elements, attributes, deleted, call, last, flt, qry, sch, notion_pages, syncs>>

----------------------------------------------------------------------------
(* The requests of the specifications on queries *)

Text(chars) == <<[plain_text |-> chars]>>

\* Pages with a value for every kind, two pages where every value is absent,
\* and a page of another shape: "s" as a checkbox, a relation and a rollup
QueryPayloads ==
    { ("b" :> [type |-> "checkbox", checkbox |-> TRUE])
        @@ ("n" :> [type |-> "number", number |-> {1}])
        @@ ("s" :> [type |-> "rich_text", rich_text |-> Text(<<"x">>)])
        @@ ("d" :> [type |-> "date", date |-> {[start |-> Iso(1, {0})]}])
        @@ ("m" :> [type |-> "multi_select", multi_select |-> <<[name |-> <<"x">>]>>]),
      ("b" :> [type |-> "checkbox", checkbox |-> FALSE])
        @@ ("n" :> [type |-> "number", number |-> {2}])
        @@ ("s" :> [type |-> "rich_text", rich_text |-> Text(<<"y">>)])
        @@ ("d" :> [type |-> "date", date |-> {[start |-> Iso(2, {0})]}])
        @@ ("m" :> [type |-> "multi_select",
                    multi_select |-> <<[name |-> <<"x">>], [name |-> <<"y">>]>>]),
      ("b" :> [type |-> "checkbox", checkbox |-> FALSE])
        @@ ("n" :> [type |-> "number", number |-> NULL])
        @@ ("s" :> [type |-> "rich_text", rich_text |-> <<>>])
        @@ ("d" :> [type |-> "date", date |-> NULL])
        @@ ("m" :> [type |-> "multi_select", multi_select |-> <<>>])
        @@ ("t" :> [type |-> "title", title |-> <<>>]),
      ("c" :> [type |-> "select", select |-> NULL])
        @@ ("u" :> [type |-> "url", url |-> NULL])
        @@ ("e" :> [type |-> "email", email |-> {<<>>}])
        @@ ("p" :> [type |-> "phone_number", phone_number |-> NULL])
        @@ ("q" :> [type |-> "people", people |-> <<>>])
        @@ ("f" :> [type |-> "files", files |-> <<>>]),
      ("s" :> [type |-> "checkbox", checkbox |-> TRUE])
        @@ ("r" :> [type |-> "relation"])
        @@ ("l" :> [type |-> "rollup"]) }

\* upstream answers one page at most, all pages edited at the same instant
\* (any of the Elements may then be the latest one)
QueryAnswers ==
    {[ok |-> TRUE, rows |-> s] :
        s \in RowSeqs([id : NotionIds, last_edited_time : {Iso(1, {0})},
                       properties : QueryPayloads], 1)}

\* a sync of a Table, while no other request is being answered
GetDataFrom(table_id, answers) ==
    /\ flt = NoFilter
    /\ qry = NoQuery
    /\ sch = NoSchema
    /\ Serve(table_id, FALSE, TRUE, answers)
    /\ UNCHANGED last

GetDataToQuery(table_id) == GetDataFrom(table_id, QueryAnswers)

JsonTrue  == [boolean |-> TRUE]
JsonFalse == [boolean |-> FALSE]

\* the operands tried for the attributes n, s and d
OperandsOf(name) ==
    CASE name = "n" -> {[number |-> 1], [number |-> 2]}
      [] name = "s" -> {Str(<<"x">>), Str(<<"y">>)}
      [] OTHER -> {[isostring |-> Iso(1, {0})], [isostring |-> Iso(2, {0})]}

EmptiableNames == {"t", "s", "c", "u", "e", "p", "m", "q", "f", "d", "n"}

QueryFilters ==
    {NULL}
    \cup UNION {{{OneCondition(name, op, value)} :
                    op \in {"is", "is_not"}, value \in OperandsOf(name)}
                : name \in {"n", "s", "d"}}
    \cup {{OneCondition(name, "is_empty", value)} :
             name \in EmptiableNames \cup {"b"}, value \in {JsonTrue, JsonFalse}}
    \cup {{OneCondition(name, op, value)} :
             name \in {"s", "m"}, op \in {"contains", "does_not_contain"},
             value \in OperandsOf("s")}
    \cup {{OneCondition("z", "is", [number |-> 1])},
          {OneCondition("n", "matches", [number |-> 1])},
          {OneCondition("n", "is", Str(<<"x">>))},
          {<<<<"n", [number |-> 1]>>>>}}

Calculations == {"sum", "min", "max", "average", "count", "count_unique", "median"}

\* the descriptors sent: a filter alone, or a calculation with or without
\* group_by and filter
Queries ==
    {[calculate |-> NULL, filter |-> f, group_by |-> NULL] : f \in QueryFilters}
    \cup {[calculate |-> {c}, filter |-> f, group_by |-> g] :
             c \in Calculations,
             f \in {NULL, {OneCondition("n", "is_not", [number |-> 1])}},
             g \in {NULL, {"s"}, {"n"}}}
    \cup {[calculate |-> NULL, filter |-> NULL, group_by |-> {"s"}],
          [calculate |-> {"sum"}, filter |-> {OneCondition("z", "is", [number |-> 1])},
           group_by |-> NULL],
          [calculate |-> {"count"}, filter |-> NULL, group_by |-> {"z"}]}

\* the clock of the requests that use no window
Noon == datetime(1, 2, 14, 1)

ReadCache == ReadData(Queries, {Noon})

\* what the clock may show when a window is read: a Thursday at noon, and
\* the Monday of the same week at 00:00
Nows == {Noon, datetime(1, 2, 11, 0)}

\* the dates around the ends of the week, the month and the year of Nows
WindowDates ==
    UNION {{bounds[1] - 1, bounds[1], bounds[1] + 1, bounds[2] - 1, bounds[2], bounds[2] + 1}
           : bounds \in {window_bounds("this", window, Noon) : window \in TimeWindows}}

\* pages with a date, one page at most in an answer
DateAnswers ==
    {[ok |-> TRUE, rows |-> s] :
        s \in RowSeqs([id : NotionIds, last_edited_time : {Iso(1, {0})},
                       properties : {("d" :> [type |-> "date", date |-> {[start |-> Iso(v, {0})]}])
                                     : v \in WindowDates}], 1)}

GetDataOfDates(table_id) == GetDataFrom(table_id, DateAnswers)

WindowQueries ==
    {[calculate |-> NULL, filter |-> {OneCondition("d", op, window)}, group_by |-> NULL] :
        op \in {"past", "next", "this"}, window \in TimeWindows}

ReadWindow == ReadData(WindowQueries, Nows)

\* Pages with a title, a number, a formula, a relation and a rollup, and
\* pages of another shape, "s" as a checkbox
SchemaPayloads ==
    { ("t" :> [type |-> "title", title |-> Text(<<"x">>)])
        @@ ("n" :> [type |-> "number", number |-> {1}])
        @@ ("s" :> [type |-> "formula", formula |-> [type |-> "string", string |-> {<<"x">>}]])
        @@ ("r" :> [type |-> "relation"])
        @@ ("l" :> [type |-> "rollup"]),
      ("s" :> [type |-> "checkbox", checkbox |-> TRUE])
        @@ ("r" :> [type |-> "relation"]),
      ("r" :> [type |-> "checkbox", checkbox |-> TRUE]),
      ("r" :> [type |-> "relation"]) }

SchemaRows ==
    [id : NotionIds, last_edited_time : {Iso(t, {0}) : t \in Times}, properties : SchemaPayloads]

GetDataForSchema(table_id) ==
    GetDataFrom(table_id, {[ok |-> TRUE, rows |-> s] : s \in RowSeqs(SchemaRows, MaxRows)})

\* the whole cache of a Table read
ReadAll == ReadData({[calculate |-> NULL, filter |-> NULL, group_by |-> NULL]}, {Noon})

(* get_data served to several requests at once: one step per commit *)

\* the requests in flight, each with its own Session (get_db)
Requests == {1, 2}

\* where a request is in get_data. filter: the watermark sent; batch: the rows
\* drained; all_elements: the rows not yet applied, the first one being
\* applied; element_id and names: the Element being written and the
\* properties of the row not yet written; deleted: the bulk delete left in
\* the open transaction; retry: the request began after a sync of its Table
\* had aborted.
Idle ==
    [pc |-> "idle", table_id |-> 0, update_cache |-> FALSE, filter |-> NULL,
     batch |-> <<>>, all_elements |-> <<>>, element_id |-> 0, names |-> {},
     deleted |-> {}, retry |-> FALSE, status |-> "none", data |-> NULL]

\* the payloads of the pages of the upstream table
PagePayloads ==
    { ("a" :> [type |-> "number", number |-> {1}]),
      ("a" :> [type |-> "number", number |-> {2}]) @@ ("b" :> [type |-> "checkbox", checkbox |-> TRUE]) }

\* the Session of a request: the committed store and its own open transaction
SessionOf(request) ==
    [elements |-> elements, attributes |-> attributes, deleted |-> syncs[request].deleted]

\* the pages upstream answers a filter with: those edited strictly after it
pages_after(filter) ==
    {r \in notion_pages : \A w \in filter : isoparse_utc(r.last_edited_time) > w.local}

\* The INSERT with no unique index on notion_id
insert_element_unchecked(db, notion_id, table_id, last_edited) ==
    {commit([db EXCEPT !.elements = @ \cup
               {[id |-> new_element_id(db.elements), table_id |-> table_id,
                 notion_id |-> notion_id, last_edited |-> isoparse_utc(last_edited)]}])}

\* create_element up to its first commit: {} when the unique index on
\* notion_id refuses the row (IntegrityError)
insert_element(db, notion_id, table_id, last_edited) ==
    IF \E e \in db.elements : e.notion_id = notion_id THEN {}
    ELSE {commit([db EXCEPT !.elements = @ \cup
                    {[id |-> new_element_id(db.elements), table_id |-> table_id,
                      notion_id |-> notion_id, last_edited |-> isoparse_utc(last_edited)]}])}

\* update_element up to the bulk delete: the date committed, the delete of
\* the attributes left in the open transaction
edit_element(db, element_id, last_edited) ==
    LET updated == commit([db EXCEPT !.elements =
                      {IF e.id = element_id
                       THEN [e EXCEPT !.last_edited = isoparse_utc(last_edited)] ELSE e
                       : e \in @}])
    IN  [updated EXCEPT !.deleted = {a \in updated.attributes : a.element_id = element_id}]

\* the loops of get_data once a row is done with: the next property, the next
\* row, or extract_data_from_db
next_iteration(sync) ==
    IF sync.names # {} THEN sync
    ELSE IF Len(sync.all_elements) > 1
    THEN [sync EXCEPT !.pc = "lookup", !.all_elements = Tail(@), !.element_id = 0]
    ELSE [sync EXCEPT !.pc = "extract", !.all_elements = <<>>, !.element_id = 0]

Init ==
    /\ elements = {}
    /\ attributes = {}
    /\ deleted = {}
    /\ call = NoRequest
    /\ last = Answered(NoRequest)
    /\ flt = NoFilter
    /\ qry = NoQuery
    /\ sch = NoSchema
    /\ integrations = {}
    /\ tables = {}
    /\ reg = NoCreate
    /\ notion_pages = {}
    /\ syncs = [request \in Requests |-> Idle]

Next ==
    \/ \E table_id \in TableIds, reset_cache \in BOOLEAN, update_cache \in BOOLEAN :
          GetData(table_id, reset_cache, update_cache)
    \/ CloseSession

Spec == Init /\ [][Next]_vars

NextHistory ==
    \/ \E table_id \in TableIds, reset_cache \in BOOLEAN, update_cache \in BOOLEAN :
          GetDataRemembered(table_id, reset_cache, update_cache)
    \/ CloseSession

\* the same system, remembering the previous answer
SpecHistory == Init /\ [][NextHistory]_vars

NextFilter ==
    \/ \E table_id \in TableIds : GetDataTyped(table_id)
    \/ CloseSession
    \/ Compile
    \/ Respond

\* syncs of typed pages, and filters compiled against the cache they leave
SpecFilter == Init /\ [][NextFilter]_vars

NextQuery ==
    \/ \E table_id \in TableIds : GetDataToQuery(table_id)
    \/ CloseSession
    \/ ReadCache
    \/ Answer

\* syncs, and reads of the cache they leave
SpecQuery == Init /\ [][NextQuery]_vars

NextWindow ==
    \/ \E table_id \in TableIds : GetDataOfDates(table_id)
    \/ CloseSession
    \/ ReadWindow
    \/ Answer

\* syncs of dated pages, and reads of the cache through a relative window
SpecWindow == Init /\ [][NextWindow]_vars

NextSchema ==
    \/ \E table_id \in TableIds : GetDataForSchema(table_id)
    \/ CloseSession
    \/ GetSchema
    \/ SendSchema
    \/ ReadAll
    \/ Answer

\* syncs, and reads of the schema and of the whole cache they leave
SpecSchema == Init /\ [][NextSchema]_vars

\* the greatest last_edited of the Elements of a Table (0: none cached)
Watermark(elems, table_id) ==
    LET own == {e \in elems : e.table_id = table_id}
    IN  IF own = {} THEN 0
        ELSE CHOOSE t \in {e.last_edited : e \in own} : \A e \in own : e.last_edited <= t

\* the last_edited_time of a page never goes back: a row that is cached was
\* served earlier, and is served now with a date that is not older
NotOlder(r) ==
    \A e \in elements :
        e.notion_id = r.id => isoparse_utc(r.last_edited_time) >= e.last_edited

\* An upstream that honours the filter it is given: with a watermark it
\* answers only rows edited strictly after it
NewerAnswers(table_id, reset_cache) ==
    {answer \in UpstreamAnswers :
        \A r \in Range(answer.rows) :
            /\ NotOlder(r)
            /\ (reset_cache \/ Watermark(elements, table_id) = 0
                  \/ isoparse_utc(r.last_edited_time) > Watermark(elements, table_id))}

GetDataNewer(table_id, reset_cache, update_cache) ==
    /\ Serve(table_id, reset_cache, update_cache, NewerAnswers(table_id, reset_cache))
    /\ UNCHANGED last

NextNewer ==
    \/ \E table_id \in TableIds, reset_cache \in BOOLEAN, update_cache \in BOOLEAN :
          GetDataNewer(table_id, reset_cache, update_cache)
    \/ CloseSession

\* syncs against an upstream that honours the watermark
SpecNewer == Init /\ [][NextNewer]_vars

\* the records of the requests served one at a time
one_at_a_time == <<deleted, call, last, flt, qry, sch, integrations, tables, reg>>

\* A page of the upstream table is created or edited: its date only grows.
\* The edits come between the syncs (one that comes while a sync runs is
\* seen by the next sync).
EditPage(id) ==
    /\ \A request \in Requests : syncs[request].pc \in {"idle", "done", "aborted"}
    /\ \E time \in Times, properties \in PagePayloads :
          /\ \A r \in notion_pages : r.id = id => isoparse_utc(r.last_edited_time) < time
          /\ notion_pages' = {r \in notion_pages : r.id # id} \cup
                {[id |-> id, last_edited_time |-> Iso(time, {0}), properties |-> properties]}
    /\ UNCHANGED <<elements, attributes, syncs, one_at_a_time>>

\* get_data with update_cache: the watermark is read
BeginSync(request, table_id) ==
    /\ syncs[request].pc = "idle"
    /\ \E db_latest_element \in last_table_element(elements, table_id) :
          syncs' = [syncs EXCEPT ![request] =
                      [Idle EXCEPT !.pc = "fetch", !.table_id = table_id,
                                   !.update_cache = TRUE,
                                   !.filter = filter_kwargs(db_latest_element),
                                   !.retry = \E other \in Requests :
                                                /\ syncs[other].pc = "aborted"
                                                /\ syncs[other].table_id = table_id]]
    /\ UNCHANGED <<elements, attributes, notion_pages, one_at_a_time>>

\* get_data with neither flag: the committed cache is answered as it is
ReadOnly(request, table_id) ==
    /\ syncs[request].pc = "idle"
    /\ \E data \in {extract_data_from_db(SessionOf(request), table_id)} :
          syncs' = [syncs EXCEPT ![request] =
                      [Idle EXCEPT !.pc = "done", !.table_id = table_id, !.data = data,
                                   !.status = IF data = NULL THEN "TooMuchElements" ELSE "ok"]]
    /\ UNCHANGED <<elements, attributes, notion_pages, one_at_a_time>>

\* the orders a set of pages may be delivered in
Deliveries(rows) ==
    {s \in [1..Cardinality(rows) -> rows] : \A i, j \in DOMAIN s : i # j => s[i] # s[j]}

\* iterate_paginated_api: the pages are drained, or the client raises
Fetch(request) ==
    /\ syncs[request].pc = "fetch"
    /\ \/ syncs' = [syncs EXCEPT ![request].pc = "done",
                                 ![request].status = "APIResponseError"]
       \/ \E rows \in Deliveries(pages_after(syncs[request].filter)) :
             syncs' = [syncs EXCEPT ![request].batch = rows,
                                    ![request].all_elements = rows,
                                    ![request].pc = IF rows = <<>> THEN "extract"
                                                    ELSE "lookup"]
    /\ UNCHANGED <<elements, attributes, notion_pages, one_at_a_time>>

\* crud.get_element_by_notion_id for the row being applied
Lookup(request) ==
    /\ syncs[request].pc = "lookup"
    /\ \E db_element \in {get_element_by_notion_id(SessionOf(request),
                                                   Head(syncs[request].all_elements).id)} :
          syncs' = [syncs EXCEPT
                      ![request].pc = IF db_element = NULL THEN "create" ELSE "update",
                      ![request].element_id =
                          IF db_element = NULL THEN 0 ELSE (CHOOSE e \in db_element : TRUE).id]
    /\ UNCHANGED <<elements, attributes, notion_pages, one_at_a_time>>

\* crud.create_element up to its commit of the Element
CreateElement(request) ==
    /\ syncs[request].pc = "create"
    /\ \E element \in {Head(syncs[request].all_elements)} :
       \E inserted \in {insert_element(SessionOf(request), element.id,
                                       syncs[request].table_id, element.last_edited_time)} :
          IF inserted = {}
          THEN /\ syncs' = [syncs EXCEPT ![request].pc = "done",
                                         ![request].status = "IntegrityError",
                                         ![request].deleted = {}]
               /\ UNCHANGED <<elements, attributes>>
          ELSE \E db \in inserted :
               /\ elements' = db.elements
               /\ attributes' = db.attributes
               /\ syncs' = [syncs EXCEPT
                     ![request].pc = "attributes",
                     ![request].deleted = db.deleted,
                     ![request].names = DOMAIN element.properties,
                     ![request].element_id =
                         (CHOOSE e \in db.elements \ elements : TRUE).id]
    /\ UNCHANGED <<notion_pages, one_at_a_time>>

\* crud.update_element up to its bulk delete
UpdateElement(request) ==
    /\ syncs[request].pc = "update"
    /\ \E element \in {Head(syncs[request].all_elements)} :
       \E db \in {edit_element(SessionOf(request), syncs[request].element_id,
                               element.last_edited_time)} :
          /\ elements' = db.elements
          /\ attributes' = db.attributes
          /\ syncs' = [syncs EXCEPT ![request].pc = "attributes",
                                    ![request].deleted = db.deleted,
                                    ![request].names = DOMAIN element.properties]
    /\ UNCHANGED <<notion_pages, one_at_a_time>>

\* one iteration of "for name, attr in attributes.items()": crud.create_attribute
CreateAttribute(request) ==
    /\ syncs[request].pc = "attributes"
    /\ \E element \in {Head(syncs[request].all_elements)} :
       \E name \in {CHOOSE n \in syncs[request].names : TRUE} :
       \E db \in {create_attribute(SessionOf(request), name, element.properties[name],
                                   syncs[request].element_id)} :
          /\ attributes' = db.attributes
          /\ syncs' = [syncs EXCEPT ![request] =
                         next_iteration([@ EXCEPT !.names = @ \ {name},
                                                  !.deleted = db.deleted])]
    /\ UNCHANGED <<elements, notion_pages, one_at_a_time>>

\* extract_data_from_db at the end of a sync
Extract(request) ==
    /\ syncs[request].pc = "extract"
    /\ \E data \in {extract_data_from_db(SessionOf(request), syncs[request].table_id)} :
          syncs' = [syncs EXCEPT ![request].pc = "done", ![request].data = data,
                                 ![request].status =
                                     IF data = NULL THEN "TooMuchElements" ELSE "ok"]
    /\ UNCHANGED <<elements, attributes, notion_pages, one_at_a_time>>

\* the response is sent and get_db closes the Session
Close(request) ==
    /\ syncs[request].pc = "done"
    /\ syncs' = [syncs EXCEPT ![request] = Idle]
    /\ UNCHANGED <<elements, attributes, notion_pages, one_at_a_time>>

\* a statement of the row being applied raises (the database refuses a
\* write or is gone): the request ends there, the Session is closed. The
\* batch stays on record.
Abort(request) ==
    /\ syncs[request].pc \in {"lookup", "create", "update", "attributes"}
    /\ syncs' = [syncs EXCEPT ![request] =
                    [Idle EXCEPT !.pc = "aborted", !.table_id = syncs[request].table_id,
                                 !.update_cache = TRUE, !.batch = syncs[request].batch,
                                 !.status = "error"]]
    /\ UNCHANGED <<elements, attributes, notion_pages, one_at_a_time>>

NextConcurrent ==
    \/ \E id \in NotionIds : EditPage(id)
    \/ \E request \in Requests, table_id \in TableIds : BeginSync(request, table_id)
    \/ \E request \in Requests, table_id \in TableIds : ReadOnly(request, table_id)
    \/ \E request \in Requests : Fetch(request)
    \/ \E request \in Requests : Lookup(request)
    \/ \E request \in Requests : CreateElement(request)
    \/ \E request \in Requests : UpdateElement(request)
    \/ \E request \in Requests : CreateAttribute(request)
    \/ \E request \in Requests : Extract(request)
    \/ \E request \in Requests : Close(request)

\* requests served side by side on the same store, a step per commit
SpecConcurrent == Init /\ [][NextConcurrent]_vars

\* no other request is being served
Alone(request) ==
    \A other \in Requests \ {request} : syncs[other].pc \in {"idle", "aborted"}

\* a sync begins once the request before it is over
BeginAlone(request, table_id) == Alone(request) /\ BeginSync(request, table_id)

NextAborted ==
    \/ \E id \in NotionIds : EditPage(id)
    \/ \E request \in Requests, table_id \in TableIds : BeginAlone(request, table_id)
    \/ \E request \in Requests : Fetch(request)
    \/ \E request \in Requests : Lookup(request)
    \/ \E request \in Requests : CreateElement(request)
    \/ \E request \in Requests : UpdateElement(request)
    \/ \E request \in Requests : CreateAttribute(request)
    \/ \E request \in Requests : Extract(request)
    \/ \E request \in Requests : Close(request)
    \/ \E request \in Requests : Abort(request)

\* syncs served one after the other, any of which may abort on a write
SpecAborted == Init /\ [][NextAborted]_vars

NextCreate == \E integration \in Tokens, table \in ExternalTables : Create(integration, table)

\* registrations
SpecCreate == Init /\ [][NextCreate]_vars

\* a Table that holds one Element less than MAX_ELEMENTS, each synced from a
\* page of its own with one number
CachedPages == 1..(MAX_ELEMENTS - 1)

InitCap ==
    /\ elements = {[id |-> i, table_id |-> 1, notion_id |-> ToString(i), last_edited |-> 1] :
                      i \in CachedPages}
    /\ attributes = UNION {notion_attr_to_db_attr("a", [type |-> "number", number |-> {1}],
                                                  i, NULL) : i \in CachedPages}
    /\ deleted = {}
    /\ call = NoRequest
    /\ last = Answered(NoRequest)
    /\ flt = NoFilter
    /\ qry = NoQuery
    /\ sch = NoSchema
    /\ integrations = {}
    /\ tables = {}
    /\ reg = NoCreate
    /\ notion_pages = {}
    /\ syncs = [request \in Requests |-> Idle]

\* upstream answers with new pages, or fails after the first one
CapAnswers ==
    LET rows == [id : NotionIds, last_edited_time : {Iso(1, {0})},
                 properties : {("a" :> [type |-> "number", number |-> {2}])}]
    IN  {[ok |-> TRUE, rows |-> s] : s \in RowSeqs(rows, MaxRows)}
        \cup {[ok |-> FALSE, rows |-> s] : s \in RowSeqs(rows, MaxRows - 1)}

GetDataNearCap(table_id, update_cache) ==
    /\ Serve(table_id, FALSE, update_cache, CapAnswers)
    /\ UNCHANGED last

NextCap ==
    \/ \E table_id \in TableIds, update_cache \in BOOLEAN : GetDataNearCap(table_id, update_cache)
    \/ CloseSession

\* requests on a cache that is about to exceed MAX_ELEMENTS
SpecCap == InitCap /\ [][NextCap]_vars

----------------------------------------------------------------------------
(* Syncs of pages of every shape upstream sends: formulas of the four result
   kinds, a type tag the adapter has no branch for, and lists of names or ids
   written with the characters JSON and LIKE treat specially *)

\* the lists of names or ids of the multi-valued properties
NameLists ==
    {<<<<"a">>>>, <<<<"a">>, <<"b">>>>, <<<<"b">>, <<"a">>>>,
     <<<<"%">>>>, <<<<"_">>, <<"\"">>>>, <<<<"a", "\"">>, <<"\\">>>>}

\* [{"name": n} for n in names]
Named(names, key) == [i \in 1..Len(names) |-> (key :> names[i])]

FormulaResults ==
    {[type |-> "string", string |-> {<<"x">>}],
     [type |-> "number", number |-> {1}],
     [type |-> "boolean", boolean |-> TRUE],
     [type |-> "date", date |-> {[start |-> Iso(1, {0})]}]}

\* one property "v" per page
MappingPayloads ==
    {("v" :> [type |-> "formula", formula |-> result]) : result \in FormulaResults}
    \cup {("v" :> [type |-> "unique_id", unique_id |-> [number |-> 1]])}
    \cup {("v" :> [type |-> "number", number |-> {2}])}
    \cup {("v" :> [type |-> "multi_select", multi_select |-> Named(names, "name")])
             : names \in NameLists}
    \cup {("v" :> [type |-> "people", people |-> Named(<<<<"a">>, <<"b">>>>, "id")]),
          ("v" :> [type |-> "files", files |-> Named(<<<<"b">>, <<"a">>>>, "name")])}

MappingAnswers ==
    {[ok |-> TRUE, rows |-> s] :
        s \in RowSeqs([id : NotionIds, last_edited_time : {Iso(1, {0})},
                       properties : MappingPayloads], 1)}

GetDataMapped(table_id) == GetDataFrom(table_id, MappingAnswers)

NextMapping ==
    \/ \E table_id \in TableIds : GetDataMapped(table_id)
    \/ CloseSession

\* syncs of one page at a time, of every shape
SpecMapping == Init /\ [][NextMapping]_vars

----------------------------------------------------------------------------
(* Reads with filters of several entries, with and without an "or" list *)

\* {"or": [clause, ...]}
OrList(clauses) == <<<<"or", [array |-> [i \in 1..Len(clauses) |-> Object(clauses[i])]]>>>>

CombinedFilters ==
    { OneCondition("n", "is", [number |-> 1]) \o OneCondition("s", "is", Str(<<"x">>)),
      OneCondition("n", "is", [number |-> 2]) \o OneCondition("b", "is", [boolean |-> TRUE]),
      <<<<"n", Object(<<<<"greater_or_equal", [number |-> 1]>>,
                        <<"less_than", [number |-> 2]>>>>)>>>>,
      OrList(<<OneCondition("n", "is", [number |-> 1]),
               OneCondition("s", "is", Str(<<"y">>))>>),
      OrList(<<OneCondition("n", "is", [number |-> 2])
                   \o OneCondition("b", "is", [boolean |-> FALSE])>>),
      OneCondition("b", "is", [boolean |-> TRUE])
          \o OrList(<<OneCondition("n", "is", [number |-> 2])>>),
      OrList(<<OneCondition("n", "is", [number |-> 1])>>)
          \o OneCondition("b", "is", [boolean |-> TRUE]),
      OrList(<<OrList(<<OneCondition("n", "is", [number |-> 1])>>)>>),
      OrList(<<OneCondition("s", "is", Str(<<"y">>)),
               OrList(<<OneCondition("n", "is", [number |-> 1]),
                        OneCondition("b", "is", [boolean |-> FALSE])>>)>>) }

CombinedQueries ==
    {[calculate |-> NULL, filter |-> {f}, group_by |-> NULL] : f \in CombinedFilters}

ReadCombined == ReadData(CombinedQueries, {Noon})

NextCombined ==
    \/ \E table_id \in TableIds : GetDataToQuery(table_id)
    \/ CloseSession
    \/ ReadCombined
    \/ Answer

\* syncs, and reads of the cache with composed filters
SpecCombined == Init /\ [][NextCombined]_vars

----------------------------------------------------------------------------
(* Reads of lists of names by what they contain *)

\* pages whose property "v" is a multi-select
ListAnswers ==
    {[ok |-> TRUE, rows |-> s] :
        s \in RowSeqs([id : NotionIds, last_edited_time : {Iso(1, {0})},
                       properties : {("v" :> [type |-> "multi_select",
                                              multi_select |-> Named(names, "name")])
                                     : names \in NameLists}], 1)}

GetDataListed(table_id) == GetDataFrom(table_id, ListAnswers)

\* the operands: one character of the alphabet each, and a name of two
ListOperands == {Str(<<c>>) : c \in {"a", "b", "%", "_", "\""}} \cup {Str(<<"a", "\"">>)}

ListQueries ==
    {[calculate |-> NULL, filter |-> {OneCondition("v", op, value)}, group_by |-> NULL] :
        op \in {"contains", "does_not_contain", "contains_only"}, value \in ListOperands}

ReadLists == ReadData(ListQueries, {Noon})

NextLists ==
    \/ \E table_id \in TableIds : GetDataListed(table_id)
    \/ CloseSession
    \/ ReadLists
    \/ Answer

\* syncs of lists, and reads of the Elements whose list contains a name
SpecLists == Init /\ [][NextLists]_vars

----------------------------------------------------------------------------
(* Requests that sync and read with descriptors in one call *)

\* a page of seven properties: two of them exceed MAX_ATTRIBUTES
WidePayload ==
    [n \in {"a", "b", "c", "d", "e", "f", "g"} |-> [type |-> "number", number |-> {1}]]

DescribedAnswers ==
    {[ok |-> TRUE, rows |-> s] :
        s \in RowSeqs([id : NotionIds, last_edited_time : {Iso(1, {0})},
                       properties : {("a" :> [type |-> "number", number |-> {1}]),
                                     ("a" :> [type |-> "number", number |-> {2}])
                                        @@ ("b" :> [type |-> "checkbox", checkbox |-> TRUE]),
                                     WidePayload}], MaxRows)}

\* a valid descriptor, and descriptors the read refuses: an attribute no
\* Element has, a calculation that does not exist, group_by alone
DescribedQueries ==
    {[calculate |-> NULL, filter |-> NULL, group_by |-> NULL],
     [calculate |-> NULL, filter |-> {OneCondition("z", "is", [number |-> 1])},
      group_by |-> NULL],
     [calculate |-> {"median"}, filter |-> NULL, group_by |-> NULL],
     [calculate |-> NULL, filter |-> NULL, group_by |-> {"a"}]}

\* POST /{integration}/{table}/data with descriptors: the sync of get_data,
\* then the read of the cache it leaves, in the session of the request
GetDataDescribed(table_id, reset_cache, update_cache) ==
    /\ call = NoRequest
    /\ flt = NoFilter
    /\ qry = NoQuery
    /\ sch = NoSchema
    /\ \E answer \in (IF reset_cache \/ update_cache THEN DescribedAnswers ELSE {NoAnswer}),
          query \in DescribedQueries :
       \E db_latest_element \in
             (IF update_cache /\ ~reset_cache
              THEN last_table_element(elements, table_id) ELSE {NULL}) :
       \E out \in {get_data(Session(elements, attributes), table_id,
                            reset_cache, update_cache, db_latest_element, answer)} :
       \E db_element \in last_table_element(out.db.elements, table_id) :
       \E read \in read_data(out.db, table_id, query.calculate, query.filter,
                             query.group_by, db_element, Noon) :
           /\ elements' = out.db.elements
           /\ attributes' = out.db.attributes
           /\ deleted' = out.db.deleted
           /\ call' = Request(table_id, reset_cache, update_cache, answer,
                              {r.id : r \in Range(all_elements(answer))}
                                \cap {e.notion_id : e \in {x \in elements :
                                        ~(reset_cache /\ x.table_id = table_id)}},
                              out)
           /\ qry' = [table_id |-> table_id, calculate |-> query.calculate,
                      filter |-> query.filter, group_by |-> query.group_by, now |-> Noon,
                      db_element |-> db_element,
                      raised |-> read.raised, status |-> read.status, detail |-> read.detail,
                      db_filter |-> read.db_filter, rows |-> read.rows, data |-> read.data]
    /\ UNCHANGED <<last, flt, sch, integrations, tables, reg, notion_pages, syncs>>

NextDescribed ==
    \/ \E table_id \in TableIds, reset_cache \in BOOLEAN, update_cache \in BOOLEAN :
          GetDataDescribed(table_id, reset_cache, update_cache)
    \/ CloseSession
    \/ Answer

\* requests that sync, then read with valid and invalid descriptors
SpecDescribed == Init /\ [][NextDescribed]_vars

----------------------------------------------------------------------------
(* POST /create served to several clients at once: one Session per request,
   one step per statement that reads or commits. syncs holds the position
   and the locals of the handler of each request. *)

\* the locals of create: the form fields, db_integration.id, and the answer
Registering(pc, integration, table, integration_id, status, table_id) ==
    [pc |-> pc, integration |-> integration, table |-> table,
     integration_id |-> integration_id, status |-> status, table_id |-> table_id]

\* crud.get_integration_by_token
GetIntegrationByToken(request, integration, table) ==
    /\ syncs[request].pc = "idle"
    /\ \E db_integration \in {{x \in integrations : x.token = integration}} :
          syncs' = [syncs EXCEPT ![request] =
                      IF db_integration = {}
                      THEN Registering("create_integration", integration, table, NULL, "none", NULL)
                      ELSE Registering("get_table_by_table_id", integration, table,
                                       {x.id : x \in db_integration}, "none", NULL)]
    /\ UNCHANGED <<elements, attributes, deleted, call, last, flt, qry, sch, integrations,
                   tables, reg, notion_pages>>

\* crud.create_integration: the INSERT is refused when the token is stored
\* by now (integrations.token is unique)
CreateIntegration(request) ==
    /\ syncs[request].pc = "create_integration"
    /\ IF \E x \in integrations : x.token = syncs[request].integration
       THEN /\ syncs' = [syncs EXCEPT ![request].pc = "answered",
                                      ![request].status = "IntegrityError"]
            /\ UNCHANGED integrations
       ELSE \E id \in integration_ids(integrations) :
               /\ integrations' = integrations
                                    \cup {[id |-> id, token |-> syncs[request].integration]}
               /\ syncs' = [syncs EXCEPT ![request].pc = "create_table",
                                         ![request].integration_id = {id}]
    /\ UNCHANGED <<elements, attributes, deleted, call, last, flt, qry, sch, tables, reg,
                   notion_pages>>

\* crud.get_table_by_table_id: .first() of the Tables of the pair
GetTableByTableId(request) ==
    /\ syncs[request].pc = "get_table_by_table_id"
    /\ \E db_table \in {{x \in tables : /\ {x.integration_id} = syncs[request].integration_id
                                         /\ x.table_id = syncs[request].table}} :
          IF db_table = {}
          THEN syncs' = [syncs EXCEPT ![request].pc = "create_table"]
          ELSE \E found \in db_table :
                  syncs' = [syncs EXCEPT ![request].pc = "answered",
                                         ![request].table_id = {found.id}]
    /\ UNCHANGED <<elements, attributes, deleted, call, last, flt, qry, sch, integrations,
                   tables, reg, notion_pages>>

\* crud.create_table, and the redirection to the ids
CreateTable(request) ==
    /\ syncs[request].pc = "create_table"
    /\ \E integration_id \in syncs[request].integration_id :
       \E id \in table_ids(tables, integration_id) :
       \E made \in {create_table(tables, integration_id, syncs[request].table, id)} :
          /\ tables' = made.tables
          /\ syncs' = [syncs EXCEPT ![request].pc = "answered",
                                    ![request].status = made.raised,
                                    ![request].table_id = {x.id : x \in made.table}]
    /\ UNCHANGED <<elements, attributes, deleted, call, last, flt, qry, sch, integrations,
                   reg, notion_pages>>

\* the response is sent
Redirect(request) ==
    /\ syncs[request].pc = "answered"
    /\ syncs' = [syncs EXCEPT ![request] = Idle]
    /\ UNCHANGED <<elements, attributes, deleted, call, last, flt, qry, sch, integrations,
                   tables, reg, notion_pages>>

NextRegister ==
    \E request \in Requests :
        \/ \E integration \in Tokens, table \in ExternalTables :
              GetIntegrationByToken(request, integration, table)
        \/ CreateIntegration(request)
        \/ GetTableByTableId(request)
        \/ CreateTable(request)
        \/ Redirect(request)

\* registrations served side by side
SpecRegister == Init /\ [][NextRegister]_vars

----------------------------------------------------------------------------
(* Vocabulary of the properties *)

\* the step that answers a request / the step that ends it
Serving == call = NoRequest /\ call' # NoRequest
Closing == call # NoRequest /\ call' = NoRequest

OwnElements(elems, table_id) == {e \in elems : e.table_id = table_id}
AttributesOf(attrs, element_id) == {a \in attrs : a.element_id = element_id}
CachedIds(elems) == {e.notion_id : e \in elems}

\* the attribute rows an upstream row maps to, for Element element_id
RowAttributes(row, element_id) ==
    UNION {notion_attr_to_db_attr(n, row.properties[n], element_id, NULL) : n \in DOMAIN row.properties}

\* the dictionary a row is answered as
RowDict(row) == attributes_dict(RowAttributes(row, 0))

\* a bag of dictionaries, one per item
DictBag(items, Dict(_)) ==
    [d \in {Dict(x) : x \in items} |-> Cardinality({x \in items : Dict(x) = d})]

\* the committed cache of a Table as an answer
StoredData(elems, attrs, table_id) ==
    LET Dict(e) == attributes_dict(AttributesOf(attrs, e.id))
    IN  DictBag(OwnElements(elems, table_id), Dict)

\* the rows of an upstream answer, as an answer of ours
RowsData(rows) == DictBag(Range(rows), RowDict)

----------------------------------------------------------------------------
(* Properties of the synchronisation *)

\* C1: idempotent re-sync. After a successful sync of a Table, the next request on
\* that Table, again a sync (no reset), whose upstream answer holds no row, answers
\* the same rows as the first and leaves the cached Elements and Attributes as
\* they were.
C1_IdempotentResync ==
    [][(/\ Serving
        /\ last.synced /\ last.table_id = call'.table_id
        /\ call'.update_cache /\ ~call'.reset_cache
        /\ call'.answer = [ok |-> TRUE, rows |-> <<>>])
       => (/\ call'.status = "ok"
           /\ call'.data = last.data
           /\ elements' = elements
           /\ attributes' = attributes)]_vars

\* C2: incremental merge. A sync (no reset) of a Table with cached rows, whose
\* answer holds only rows with identities not yet cached (an external row
\* identity is unique across the whole store), keeps every cached
\* Element and Attribute as it is, adds exactly one Element per row, owned by the
\* Table and carrying the row's attributes and date, and answers every cached row
\* of the Table once plus every new row once.
C2_IncrementalMerge ==
    [][(/\ Serving
        /\ call'.update_cache /\ ~call'.reset_cache
        /\ call'.answer.ok
        /\ OwnElements(elements, call'.table_id) # {}
        /\ \A r \in Range(call'.answer.rows) : r.id \notin CachedIds(elements))
       => (/\ call'.status = "ok"
           /\ elements \subseteq elements'
           /\ attributes \subseteq attributes'
           /\ deleted' = {}
           /\ Cardinality(elements' \ elements) = Len(call'.answer.rows)
           /\ \A a \in attributes' \ attributes :
                  \E e \in elements' \ elements : a.element_id = e.id
           /\ \A r \in Range(call'.answer.rows) :
                  \E e \in elements' \ elements :
                      /\ e.notion_id = r.id
                      /\ e.table_id = call'.table_id
                      /\ e.last_edited = isoparse_utc(r.last_edited_time)
                      /\ AttributesOf(attributes', e.id) = RowAttributes(r, e.id)
           /\ call'.data = {StoredData(elements, attributes, call'.table_id)
                              (+) RowsData(call'.answer.rows)})]_vars

\* C2 witness: a sync on a Table that had cached rows (a watermark was sent)
\* received a row that was cached nowhere
C2_Witness ==
    /\ call.update_cache /\ ~call.reset_cache
    /\ call.status = "ok"
    /\ call.filter # NULL
    /\ call.answer.rows # <<>>
    /\ call.found = {}
    /\ Cardinality(OwnElements(elements, call.table_id)) = 2

\* C3: update in place is a full replace. When a sync receives a row whose
\* identity matches a cached Element of the Table, the Element afterwards holds
\* the new date and exactly the attributes mapped from the new payload, in the
\* answer of that request and in the cache left once the request has ended (what
\* any later cache-only read returns).
C3_FullReplace ==
    [][(Closing /\ call.called /\ call.status = "ok")
       => \A r \in Range(call.answer.rows) :
          \A e \in OwnElements(elements, call.table_id) :
              (e.notion_id = r.id /\ r.id \in call.found)
              => (/\ e.last_edited = isoparse_utc(r.last_edited_time)
                  \* in the answer of the same request
                  /\ AttributesOf(attributes \ deleted, e.id) = RowAttributes(r, e.id)
                  \* in the cache once the request has ended
                  /\ e \in elements'
                  /\ AttributesOf(attributes', e.id) = RowAttributes(r, e.id))]_vars

\* C4: reset implies full resync. With reset_cache the upstream is queried, with no
\* filter, whatever update_cache says; when it answers, the rows answered are exactly
\* the rows of the upstream answer and the Table caches exactly those rows.
C4_ResetFullResync ==
    [][(Serving /\ call'.reset_cache)
       => (/\ call'.called
           /\ call'.filter = NULL
           /\ call'.answer.ok =>
                (/\ call'.status = "ok"
                 /\ call'.data = {RowsData(call'.answer.rows)}
                 /\ CachedIds(OwnElements(elements', call'.table_id))
                      = {r.id : r \in Range(call'.answer.rows)}))]_vars

\* C5: cache-only mode. With neither update_cache nor reset_cache the upstream is
\* not invoked, no Element or Attribute is created, updated or deleted, and the
\* answer is the cache of the Table as it is: the empty answer when nothing is cached.
C5_CacheOnly ==
    [][(Serving /\ ~call'.reset_cache /\ ~call'.update_cache)
       => (/\ ~call'.called
           /\ call'.status = "ok"
           /\ elements' = elements
           /\ attributes' = attributes
           /\ deleted' = {}
           /\ call'.data = {StoredData(elements, attributes, call'.table_id)}
           /\ (OwnElements(elements, call'.table_id) = {}) => (call'.data = {EmptyBag}))]_vars

\* C5 witness: a cache-only read of a Table with nothing cached (while another
\* Table has rows) answered the empty list
C5_Witness ==
    /\ call.status = "ok"
    /\ ~call.called
    /\ OwnElements(elements, call.table_id) = {}
    /\ elements # {}
    /\ call.data = {EmptyBag}

\* C6: watermark selection. A sync without reset sends the filter "edited after"
\* the greatest last_edited of the Elements cached for that Table; with no Element
\* cached for the Table, or with reset_cache, it sends no filter.
C6_Watermark ==
    [][(Serving /\ call'.called)
       => call'.filter =
             (IF call'.reset_cache \/ OwnElements(elements, call'.table_id) = {}
              THEN NULL
              ELSE {isoformat(CHOOSE t \in Times :
                       /\ \E e \in OwnElements(elements, call'.table_id) : e.last_edited = t
                       /\ \A e \in OwnElements(elements, call'.table_id) : e.last_edited <= t)})]_vars

\* C6 witness: a watermark was sent (here with an empty answer, so the cache is
\* as it was) while another Table caches a more recent Element
C6_Witness ==
    /\ call.called
    /\ call.filter # NULL
    /\ call.answer = [ok |-> TRUE, rows |-> <<>>]
    /\ \E e \in elements :
           /\ e.table_id # call.table_id
           /\ isoformat(e.last_edited) \notin call.filter
           /\ \A w \in call.filter : e.last_edited > w.local

\* C7: upstream failure is all or nothing. When the upstream fails on a page, the
\* request ends with the upstream error and no Element or Attribute has been
\* created or updated, whatever pages were received before.
C7_UpstreamFailure ==
    [][(Serving /\ call'.called /\ ~call'.answer.ok)
       => (/\ call'.status = "APIResponseError"
           /\ call'.data = NULL
           /\ elements' \subseteq elements
           /\ attributes' \subseteq attributes
           /\ deleted' = {})]_vars

\* C7 witness: the upstream failed (no reset asked) after a page had been
\* received that held a newer version of a cached row
C7_Witness ==
    /\ call.status = "APIResponseError"
    /\ ~call.reset_cache
    /\ \E r \in Range(call.answer.rows) : \E e \in elements :
           /\ e.notion_id = r.id
           /\ e.last_edited < isoparse_utc(r.last_edited_time)

----------------------------------------------------------------------------
(* Properties of the filter compiler *)

\* the step that compiles a filter
Compiling == flt = NoFilter /\ flt' # NoFilter

\* a compilation against a non-empty cache: what its reference Element is
Reference(f) == CHOOSE e \in f.db_element : TRUE

\* a filter that is one condition {name: {op: value}}
IsOneCondition(filter) ==
    /\ filter # NULL
    /\ \A f \in filter :
          /\ Len(f) = 1
          /\ json_is_dict(f[1][2])
          /\ Len(f[1][2].object) = 1
ConditionName(filter)  == (CHOOSE f \in filter : TRUE)[1][1]
ConditionOp(filter)    == (CHOOSE f \in filter : TRUE)[1][2].object[1][1]
ConditionValue(filter) == (CHOOSE f \in filter : TRUE)[1][2].object[1][2]

Kinds == {BOOL, NUMBER, STRING_KIND, DATE, MULTISTRING}

\* the kind of a stored attribute
KindOf(a) ==
    IF a.is_bool THEN BOOL
    ELSE IF a.is_number THEN NUMBER
    ELSE IF a.is_string THEN STRING_KIND
    ELSE IF a.is_date THEN DATE
    ELSE IF a.is_multistring THEN MULTISTRING
    ELSE "none"

\* the table of the operators allowed per kind
AllowedOperators(kind) ==
    CASE kind = BOOL -> {"is", "is_not"}
      [] kind = NUMBER -> {"is", "is_not", "greater_than", "less_than", "greater_or_equal",
                           "less_or_equal", "is_empty"}
      [] kind = STRING_KIND -> {"is", "is_not", "starts_with", "ends_with", "contains",
                                "does_not_contain", "is_empty"}
      [] kind = DATE -> {"is", "is_not", "after", "on_or_after", "before", "on_or_before",
                         "is_empty", "past", "next", "this"}
      [] kind = MULTISTRING -> {"contains", "does_not_contain", "contains_only", "is_empty"}
      [] OTHER -> {}

\* the attribute of the reference Element that a one-condition filter names
NamedAttributes(f) ==
    {a \in AttributesOf(attributes, Reference(f).id) : a.name = ConditionName(f.filter)}

\* C8: kind/operator type-checking. On a non-empty cache, a filter whose one
\* condition uses an operator (known or not) that the table does not allow for the
\* kind of the attribute raises WrongFilter, whatever the operand is.
C8_KindOperator ==
    [][(Compiling /\ flt'.db_element # NULL /\ IsOneCondition(flt'.filter))
       => \A a \in NamedAttributes(flt') :
              (/\ KindOf(a) \in Kinds
               /\ ConditionOp(flt'.filter) \notin AllowedOperators(KindOf(a)))
              => flt'.raised = "WrongFilter"]_vars

\* The operand is a date and offset that no datetime in UTC represents
OutOfRange(value) == DOMAIN value = {"isostring"} /\ overflows(value.isostring)

\* The kind/operator table holds for every operand but the ISO-8601 strings
\* whose conversion to UTC overflows.
KindOperatorWithinDateRange ==
    [][(Compiling /\ flt'.db_element # NULL /\ IsOneCondition(flt'.filter)
          /\ ~OutOfRange(ConditionValue(flt'.filter)))
       => \A a \in NamedAttributes(flt') :
              (/\ KindOf(a) \in Kinds
               /\ ConditionOp(flt'.filter) \notin AllowedOperators(KindOf(a)))
              => flt'.raised = "WrongFilter"]_vars

\* a filter that is one clause (no "or" list at its root)
IsClause(filter) ==
    /\ filter # NULL
    /\ \A f \in filter : ~(dict_has(f, "or") /\ json_is_list(dict_get(f, "or")))

WrongOperand(kind, op, value) ==
    IF op = "is_empty" THEN ~json_is_bool(value)
    ELSE IF op \in {"past", "next", "this"} THEN ~json_is_str(value)
    ELSE CASE kind = BOOL -> ~json_is_bool(value)
           [] kind = NUMBER -> ~json_is_number(value)
           [] kind = DATE -> DOMAIN value # {"isostring"}
           [] OTHER -> ~json_is_str(value)

\* C10: operand type-checking. For every allowed (kind, operator) pair, a
\* condition whose operand has the wrong JSON type raises WrongFilter: booleans
\* take only true/false, numbers only numbers (no boolean), string operators only
\* strings, date comparisons only strings in ISO-8601 format, is_empty only a
\* boolean.
C10_OperandType ==
    [][(Compiling /\ flt'.db_element # NULL /\ IsOneCondition(flt'.filter))
       => \A a \in NamedAttributes(flt') :
              (/\ KindOf(a) \in Kinds
               /\ ConditionOp(flt'.filter) \in AllowedOperators(KindOf(a))
               /\ WrongOperand(KindOf(a), ConditionOp(flt'.filter), ConditionValue(flt'.filter)))
              => flt'.raised = "WrongFilter"]_vars

\* C10 witness: a boolean given to "is" on a number attribute was refused
C10_Witness ==
    /\ flt # NoFilter
    /\ flt.db_element # NULL
    /\ IsOneCondition(flt.filter)
    /\ ConditionOp(flt.filter) = "is"
    /\ json_is_bool(ConditionValue(flt.filter))
    /\ \E a \in NamedAttributes(flt) : KindOf(a) = NUMBER
    /\ flt.raised = "WrongFilter"


----------------------------------------------------------------------------
(* Properties of the reads *)

\* a read has been answered and its response not yet sent (the store does
\* not change meanwhile)
Reading == qry # NoQuery

\* the calculate and group_by descriptors the planner accepts
KnownCalculations == {"sum", "min", "max", "average", "count", "count_unique"}
PlanAccepted(q) ==
    \/ q.calculate = NULL /\ q.group_by = NULL
    \/ q.calculate # NULL /\ q.calculate \subseteq KnownCalculations

\* C11: when the Table has no cached Element, any filter descriptor, valid or
\* not, compiles to no predicate and raises nothing, and the read returns an
\* empty result.
C11_EmptyCacheNoFilter ==
    (Reading /\ PlanAccepted(qry) /\ OwnElements(elements, qry.table_id) = {})
        => /\ qry.raised = "none"
           /\ qry.db_filter = NULL
           /\ qry.rows = {}

\* a filter on an attribute no page has is read on an empty Table while the
\* other Table has Elements
C11_Witness ==
    /\ Reading
    /\ OwnElements(elements, qry.table_id) = {}
    /\ elements # {}
    /\ qry.filter = {OneCondition("z", "is", [number |-> 1])}
    /\ qry.raised = "none"


\* the Elements a read returned rows of
Selected == {r.element_id : r \in qry.rows}

\* a read that sent one condition {name: {op: value}} and nothing else, and
\* was answered with rows
OneConditionRead ==
    /\ Reading
    /\ qry.calculate = NULL
    /\ qry.group_by = NULL
    /\ IsOneCondition(qry.filter)
    /\ qry.raised = "none"

\* the attribute rows of the Table read that carry the name of the condition
Carrying ==
    {a \in attributes : /\ a.name = ConditionName(qry.filter)
                        /\ \E e \in OwnElements(elements, qry.table_id) : e.id = a.element_id}

\* a row of kind number, string or date whose value is null
NullValued(a) ==
    \/ a.is_number /\ a.value_number = NULL
    \/ a.is_string /\ a.value_string = NULL
    \/ a.is_date /\ a.value_date = NULL

\* the Elements the same read would select with another operator and operand
SelectedBy(op, value) ==
    LET got == get_attributes_of_table(Session(elements, attributes), qry.table_id, NULL,
                                       {OneCondition(ConditionName(qry.filter), op, value)},
                                       NULL, MAX_ATTRIBUTES + 1, qry.db_element, qry.now)
    IN  {r.element_id : r \in UNION got.results}

\* C12: an Element whose number, string or date attribute has a null value is
\* selected by neither `is` v nor `is_not` v nor `does_not_contain` v; it is
\* selected by `is_empty` true and not by `is_empty` false. The Elements selected
\* by `is` v, by `is_not` v and by `is_empty` true are pairwise disjoint and are
\* together all the Elements of the Table that carry the attribute.
C12_NullAndNegation ==
    OneConditionRead =>
        /\ \A a \in Carrying :
              NullValued(a) =>
                 CASE ConditionOp(qry.filter) \in {"is", "is_not", "does_not_contain"} ->
                        a.element_id \notin Selected
                   [] ConditionOp(qry.filter) = "is_empty" ->
                        (a.element_id \in Selected) = ConditionValue(qry.filter).boolean
                   [] OTHER -> TRUE
        /\ ConditionOp(qry.filter) \in {"is", "is_not"} =>
              LET value  == ConditionValue(qry.filter)
                  equal  == SelectedBy("is", value)
                  differ == SelectedBy("is_not", value)
                  empty  == SelectedBy("is_empty", JsonTrue)
              IN  /\ Selected = (IF ConditionOp(qry.filter) = "is" THEN equal ELSE differ)
                  /\ equal \cap differ = {}
                  /\ equal \cap empty = {}
                  /\ differ \cap empty = {}
                  /\ equal \cup differ \cup empty = {a.element_id : a \in Carrying}

\* `is_not` is read on a Table where one Element has a null value for the
\* attribute, one the operand as value and neither is selected
C12_Witness ==
    /\ OneConditionRead
    /\ ConditionOp(qry.filter) = "is_not"
    /\ \E a \in Carrying : NullValued(a)
    /\ \E a \in Carrying : ~NullValued(a)
    /\ Selected = {}


\* the first instant of the week, month or year an instant is in, and of the
\* following one
Begins(t, window) ==
    /\ dt_clock(t) = 0
    /\ CASE window = Str(<<"w", "e", "e", "k">>) -> weekday(t) = 0
         [] window = Str(<<"m", "o", "n", "t", "h">>) -> dt_dom(t) = 1
         [] OTHER -> dt_day(t) % YearLength = 0
LongestWindow(window) ==
    CASE window = Str(<<"w", "e", "e", "k">>) -> 7 * DayLength
      [] window = Str(<<"m", "o", "n", "t", "h">>) -> 31 * DayLength
      [] OTHER -> YearLength * DayLength
WindowStart(now, window) ==
    LET firsts == {t \in (now - LongestWindow(window))..now : Begins(t, window)}
    IN  CHOOSE t \in firsts : \A u \in firsts : u <= t
WindowEnd(now, window) ==
    LET firsts == {t \in (now + 1)..(now + LongestWindow(window)) : Begins(t, window)}
    IN  CHOOSE t \in firsts : \A u \in firsts : t <= u

\* C13: for a fixed now, {this: week} selects exactly the dates d with
\* Monday 00:00 UTC of the current week <= d < the following Monday 00:00 UTC;
\* the same half-open rule holds for this month and this year.
C13_ThisWindowHalfOpen ==
    (OneConditionRead /\ ConditionOp(qry.filter) = "this") =>
        \A a \in Carrying :
            a.value_date # NULL =>
               LET d == CHOOSE x \in a.value_date : TRUE
               IN  (a.element_id \in Selected)
                     = (/\ WindowStart(qry.now, ConditionValue(qry.filter)) <= d
                        /\ d < WindowEnd(qry.now, ConditionValue(qry.filter)))

\* the closed window: the first instant of the following week, month or year
\* is selected too
ThisWindowClosed ==
    (OneConditionRead /\ ConditionOp(qry.filter) = "this") =>
        \A a \in Carrying :
            a.value_date # NULL =>
               LET d == CHOOSE x \in a.value_date : TRUE
               IN  (a.element_id \in Selected)
                     = (/\ WindowStart(qry.now, ConditionValue(qry.filter)) <= d
                        /\ d <= WindowEnd(qry.now, ConditionValue(qry.filter)))


\* a read with a calculation among fns that was answered with rows
AggregatedRead(fns) ==
    /\ Reading
    /\ qry.calculate # NULL
    /\ qry.calculate \subseteq fns
    /\ qry.raised = "none"

\* the Elements of the Table read that pass the filter of the read
Filtered ==
    {e.id : e \in {x \in OwnElements(elements, qry.table_id) :
                     \/ qry.db_filter = NULL
                     \/ filter_is_true(CHOOSE f \in qry.db_filter : TRUE,
                                       {a \in attributes : a.element_id = x.id}, qry.now)}}

\* the Elements of a group of the read
GroupOf(group_id) ==
    {g.element_id : g \in {x \in grouper(Session(elements, attributes), qry.table_id,
                                         qry.group_by) : x.group_id = group_id}}
        \cap Filtered

\* the attribute rows of a name in a group
RowsOf(name, group_id) ==
    {a \in attributes : a.name = name /\ a.element_id \in GroupOf(group_id)}

\* the value of a row, in the slot of its kind, with its kind
StoredValue(a) ==
    IF a.is_bool THEN {<<"boolean", v>> : v \in a.value_bool}
    ELSE IF a.is_date THEN {<<"date", v>> : v \in a.value_date}
    ELSE IF a.is_number THEN {<<"number", v>> : v \in a.value_number}
    ELSE {<<"string", v>> : v \in a.value_string}

\* the number a result row of a count shows, in the slot of its kind
Counted(r) == {v[2] : v \in StoredValue(r)}

\* C14: for every attribute name and every group of the filtered Elements,
\* count is the number of Elements of the group whose value for the name is
\* not null and count_unique the number of distinct values that are not null,
\* whatever the kind of the attribute; a row is returned for every name and
\* group that has an attribute row.
C14_CountNonNull ==
    AggregatedRead({"count", "count_unique"}) =>
        /\ \A r \in qry.rows :
              LET of == RowsOf(r.name, r.element_id)
              IN  Counted(r) =
                    {IF qry.calculate = {"count"}
                     THEN Cardinality({a \in of : StoredValue(a) # {}})
                     ELSE Cardinality(UNION {StoredValue(a) : a \in of})}
        /\ \A a \in attributes :
           \A g \in grouper(Session(elements, attributes), qry.table_id, qry.group_by) :
              (g.element_id = a.element_id /\ a.element_id \in Filtered)
                  => \E r \in qry.rows : r.name = a.name /\ r.element_id = g.group_id


\* the numbers of a name in a group, each with the Element that has it
NumbersOf(name, group_id) ==
    UNION {{<<a.element_id, v>> : v \in a.value_number} : a \in RowsOf(name, group_id)}

RECURSIVE Total(_)
Total(numbers) ==
    IF numbers = {} THEN 0
    ELSE LET x == CHOOSE y \in numbers : TRUE
         IN  x[2] + Total(numbers \ {x})

\* sum, min, max and average of numbers; an average is the ratio num / den
Calculated(fn, numbers) ==
    IF numbers = {} THEN NULL
    ELSE CASE fn = {"sum"} -> {Total(numbers)}
           [] fn = {"min"} -> {x[2] : x \in {y \in numbers : \A z \in numbers : y[2] <= z[2]}}
           [] fn = {"max"} -> {x[2] : x \in {y \in numbers : \A z \in numbers : z[2] <= y[2]}}
           [] OTHER -> {[num |-> Total(numbers), den |-> Cardinality(numbers)]}

\* the result row of a name whose rows in the group are all numbers is the
\* calculation over the values that are not null
NumbersCalculated ==
    \A r \in qry.rows :
        (\A a \in RowsOf(r.name, r.element_id) : a.is_number)
            => r.value_number = Calculated(qry.calculate, NumbersOf(r.name, r.element_id))

\* the groups of the answer
Groups == {r.element_id : r \in qry.rows}

\* C15 as stated: sum, min, max and average over a number attribute are
\* computed over exactly the non-null values of the attribute in the filtered
\* group, the average divides by the number of non-null values, and a
\* calculation without group_by yields exactly one group for a non-empty Table.
C15_NumberOpsOneGroup ==
    AggregatedRead({"sum", "min", "max", "average"}) =>
        /\ NumbersCalculated
        /\ (qry.group_by = NULL /\ OwnElements(elements, qry.table_id) # {})
               => Cardinality(Groups) = 1

\* C15 amended: a calculation without group_by yields exactly one group when
\* an Element of the Table that passes the filter has an attribute, and no
\* group otherwise.
C15_NumberOps ==
    AggregatedRead({"sum", "min", "max", "average"}) =>
        /\ NumbersCalculated
        /\ qry.group_by = NULL
               => Cardinality(Groups)
                    = (IF \E a \in attributes : a.element_id \in Filtered THEN 1 ELSE 0)

\* an average over two Elements, one of them with a null number
C15_Witness ==
    /\ AggregatedRead({"average"})
    /\ qry.group_by = NULL
    /\ \E r \in qry.rows :
          /\ r.name = "n"
          /\ Cardinality(RowsOf("n", r.element_id)) = 2
          /\ \E v \in r.value_number : v.den = 1


\* a request that was answered with data or with TooMuchElements
Extracted == call # NoRequest /\ call.status \in {"ok", "TooMuchElements"}

C16_AtCap ==
    /\ Extracted
    /\ call.status = "ok"
    /\ Cardinality(OwnElements(elements, call.table_id)) = MAX_ELEMENTS


\* a schema request that was answered
SchemaRead == sch # NoSchema

\* the most recently modified Elements of a Table
LatestElements(table_id) ==
    {e \in OwnElements(elements, table_id) :
        \A y \in OwnElements(elements, table_id) : y.last_edited <= e.last_edited}

\* C17: get_schema asks upstream if and only if the Table has no cached
\* Element; when an Element is cached the schema is, for each attribute of a
\* most recently modified Element of the Table, the upstream type tag of the
\* attribute, not its storage kind.
C17_SchemaCacheFirst ==
    SchemaRead =>
        /\ sch.called = (OwnElements(elements, sch.table_id) = {})
        /\ ~sch.called =>
              /\ sch.status = "ok"
              /\ \E e \in LatestElements(sch.table_id), schema \in sch.schema :
                    /\ DOMAIN schema = {a.name : a \in AttributesOf(attributes, e.id)}
                    /\ \A a \in AttributesOf(attributes, e.id) : schema[a.name] = a.type

\* the schema of a cached page with a formula: its tag is formula, its
\* storage kind string
C17_Witness ==
    /\ SchemaRead
    /\ ~sch.called
    /\ \E schema \in sch.schema :
          /\ "s" \in DOMAIN schema
          /\ schema["s"] = "formula"
    /\ \E a \in attributes : a.name = "s" /\ a.type = "formula" /\ a.is_string


\* the property types that are not stored
Unsupported == {"relation", "rollup"}

\* no attribute row and no schema entry has the tag relation or rollup
NoUnsupportedTag ==
    /\ \A a \in attributes : a.type \notin Unsupported
    /\ SchemaRead =>
          \A schema \in sch.schema : \A n \in DOMAIN schema : schema[n] \notin Unsupported

\* once a sync that upstream answered in full is over, the Element of a page
\* has no attribute named as a relation or rollup property of the page
NoUnsupportedName ==
    (Closing /\ call.called /\ call.status = "ok") =>
        \A row \in Range(call.answer.rows) :
        \A name \in DOMAIN row.properties :
            row.properties[name].type \in Unsupported =>
                ~\E a \in attributes', e \in elements' :
                     /\ e.notion_id = row.id
                     /\ a.element_id = e.id
                     /\ a.name = name

\* C18: no Attribute is ever stored for a property of kind relation or
\* rollup, so the name of such a property appears in no data result, and no
\* schema, read from the cache or from upstream, has such a property.
C18_RelationRollupExcluded == [][NoUnsupportedTag' /\ NoUnsupportedName]_vars


\* an upstream property without a value: an empty title, rich text, select,
\* url, email, phone, multi-select, people list, file list, date or number
Absent(prop) ==
    CASE prop.type = "title" -> prop.title = <<>>
      [] prop.type = "rich_text" -> prop.rich_text = <<>>
      [] prop.type = "select" -> prop.select = NULL
      [] prop.type = "url" -> prop.url \in {NULL, {<<>>}}
      [] prop.type = "email" -> prop.email \in {NULL, {<<>>}}
      [] prop.type = "phone_number" -> prop.phone_number \in {NULL, {<<>>}}
      [] prop.type = "multi_select" -> prop.multi_select = <<>>
      [] prop.type = "people" -> prop.people = <<>>
      [] prop.type = "files" -> prop.files = <<>>
      [] prop.type = "date" -> prop.date = NULL
      [] prop.type = "number" -> prop.number = NULL
      [] OTHER -> FALSE

\* a row without a value in any slot
NullRow(a) ==
    /\ a.value_bool = NULL
    /\ a.value_date = NULL
    /\ a.value_number = NULL
    /\ a.value_string = NULL

\* the rows of the Element of a page while the request that synced it is open
SyncedRows(row) ==
    {a \in attributes \ deleted :
        \E e \in elements : e.notion_id = row.id /\ a.element_id = e.id}

\* C19: an upstream property without a value is cached as a row whose value
\* is null, and the Element is then selected by is_empty true on the name; a
\* checkbox is always cached as true or false.
C19_AbsentIsNull ==
    /\ (call # NoRequest /\ call.called /\ call.status = "ok") =>
          \A row \in Range(call.answer.rows) :
          \A name \in DOMAIN row.properties :
              /\ Absent(row.properties[name]) =>
                    \E a \in SyncedRows(row) : a.name = name /\ NullRow(a) /\ ~a.is_bool
              /\ row.properties[name].type = "checkbox" =>
                    \E a \in SyncedRows(row) :
                        a.name = name /\ a.is_bool /\ a.value_bool = {row.properties[name].checkbox}
    /\ \A a \in attributes : a.is_bool => a.value_bool \in {{TRUE}, {FALSE}}
    /\ (OneConditionRead /\ ConditionOp(qry.filter) = "is_empty"
                         /\ ConditionValue(qry.filter) = JsonTrue) =>
          \A a \in Carrying : (NullRow(a) => a.element_id \in Selected)

\* is_empty true on a people list selects the Element of a page whose list is
\* empty
C19_Witness ==
    /\ OneConditionRead
    /\ ConditionOp(qry.filter) = "is_empty"
    /\ ConditionValue(qry.filter) = JsonTrue
    /\ ConditionName(qry.filter) = "q"
    /\ \E a \in Carrying : NullRow(a) /\ a.is_multistring /\ a.element_id \in Selected


\* the Integration of a token and the Table of a pair before the request
Registered(token) == {x \in integrations : x.token = token}
RegisteredTable(token, table) ==
    {t \in tables : /\ t.table_id = table
                    /\ \E x \in Registered(token) : t.integration_id = x.id}

\* the request of a step made one new Table, of the Integration given, with
\* an id no earlier Table has, and redirects to it
NewTable(integration_id) ==
    \E t \in tables' \ tables :
        /\ tables' = tables \cup {t}
        /\ t.table_id = reg'.table
        /\ t.integration_id = integration_id
        /\ t.id \notin {x.id : x \in tables}
        /\ reg'.table_id = {t.id}

\* what a POST /create does, reg' being its request and its redirection
CreateOnce ==
    /\ integrations \subseteq integrations'
    /\ tables \subseteq tables'
    /\ IF RegisteredTable(reg'.integration, reg'.table) # {}
       THEN /\ integrations' = integrations
            /\ tables' = tables
            /\ reg'.integration_id = {x.id : x \in Registered(reg'.integration)}
            /\ reg'.table_id = {t.id : t \in RegisteredTable(reg'.integration, reg'.table)}
       ELSE IF Registered(reg'.integration) # {}
       THEN /\ integrations' = integrations
            /\ reg'.integration_id = {x.id : x \in Registered(reg'.integration)}
            /\ \E x \in Registered(reg'.integration) : NewTable(x.id)
       ELSE \E x \in integrations' \ integrations :
               /\ integrations' = integrations \cup {x}
               /\ x.token = reg'.integration
               /\ x.id \notin {y.id : y \in integrations}
               /\ reg'.integration_id = {x.id}
               /\ NewTable(x.id)

\* C20: a pair registered before gives the same integration id and table id
\* and creates nothing; a known token with a new external table id gives the
\* same integration id and a new table id; a new token gives a new Integration
\* and a new Table whose ids differ from the earlier ones, also when the
\* external table id is registered under another token; no Integration and no
\* Table is ever changed or deleted.
C20_CreateOncePerPair == [][CreateOnce]_vars

----------------------------------------------------------------------------
(* Properties of the planner and of the store under syncs *)

\* C21: a read with group_by set and calculate absent raises the
\* invalid-descriptor error, and so does a read whose calculate is none of
\* sum, min, max, average, count, count_unique; in both cases no rows are
\* returned.
C21_PlannerValidation ==
    (Reading /\ ~PlanAccepted(qry))
        => /\ qry.raised = "WrongFilter"
           /\ qry.status = "WrongFilter"
           /\ qry.rows = {}
           /\ qry.data = NULL

\* a group_by sent alone is read on a Table that has Elements
C21_Witness ==
    /\ Reading
    /\ qry.calculate = NULL
    /\ qry.group_by = {"s"}
    /\ OwnElements(elements, qry.table_id) # {}
    /\ qry.raised = "WrongFilter"

\* C22: in every reachable state, after any sequence of get_data calls with
\* any flags on any Tables (two Tables fed by the same upstream rows included),
\* no two Elements have the same external row identity, hence there is at most
\* one Element per (Table, external row identity).
C22_ElementIdentity ==
    /\ \A e1 \in elements, e2 \in elements :
           e1.notion_id = e2.notion_id => e1 = e2
    /\ \A table_id \in TableIds, notion_id \in NotionIds :
           Cardinality({e \in OwnElements(elements, table_id) : e.notion_id = notion_id}) <= 1

\* a sync of one Table has received a row that the other Table caches
C22_Witness ==
    /\ call # NoRequest
    /\ call.status = "ok"
    /\ call.found # {}
    /\ \E e \in elements : e.notion_id \in call.found /\ e.table_id # call.table_id

\* C24: after a successful get_data on a Table with update_cache, every row of
\* the upstream answer of that call is an Element owned by the Table and
\* appears in the rows answered, also when another Table already caches an
\* Element with the same external row identity.
C24_SyncCompleteness ==
    (call # NoRequest /\ call.update_cache /\ call.status = "ok")
        => /\ \A r \in Range(call.answer.rows) :
                  \E e \in OwnElements(elements, call.table_id) : e.notion_id = r.id
           /\ call.data =
                  {StoredData(elements, attributes \ deleted, call.table_id)}

\* the attributes of the Elements a Table owns
OwnAttributes(elems, attrs, table_id) ==
    {a \in attrs : \E e \in OwnElements(elems, table_id) : a.element_id = e.id}

\* C25: when get_data fails with the upstream error, the cached Elements and
\* Attributes of the Table are exactly those present before the call when
\* reset_cache is false, and the cache of the Table is empty when reset_cache
\* is true; nothing is left in the open transaction, so the end of the request
\* undoes nothing.
C25_FailedSync ==
    [][(Serving /\ call'.status = "APIResponseError")
       => /\ deleted' = {}
          /\ IF call'.reset_cache
             THEN /\ OwnElements(elements', call'.table_id) = {}
                  /\ \A a \in attributes' : \A e \in OwnElements(elements, call'.table_id) :
                         a.element_id # e.id
             ELSE /\ OwnElements(elements', call'.table_id)
                       = OwnElements(elements, call'.table_id)
                  /\ OwnAttributes(elements', attributes', call'.table_id)
                       = OwnAttributes(elements, attributes, call'.table_id)]_vars

\* a reset failed after a page had been received: the Table caches nothing
\* while the other Table keeps its Elements
C25_Witness ==
    /\ call.status = "APIResponseError"
    /\ call.reset_cache
    /\ call.answer.rows # <<>>
    /\ OwnElements(elements, call.table_id) = {}
    /\ elements # {}

\* a request on the Table that resets its cache
Resetting(table_id) == Serving /\ call'.reset_cache /\ call'.table_id = table_id

\* C30: over any sequence of get_data calls with reset_cache=false the set of
\* external row identities cached for a Table never shrinks: an Element is
\* removed only by a call with reset_cache=true on its Table, so a row that
\* upstream no longer returns stays in the cache and in the rows answered.
C30_NoEviction ==
    [][\A table_id \in TableIds :
          ~Resetting(table_id)
          => /\ CachedIds(OwnElements(elements, table_id))
                  \subseteq CachedIds(OwnElements(elements', table_id))
             /\ (Serving /\ call'.table_id = table_id /\ call'.status = "ok")
                  => \A d \in call'.data :
                        BagCardinality(d) >= Cardinality(OwnElements(elements, table_id))]_vars

\* a sync without reset received nothing from upstream and answered the two
\* rows the Table caches
C30_Witness ==
    /\ call.called
    /\ ~call.reset_cache
    /\ call.status = "ok"
    /\ call.answer = [ok |-> TRUE, rows |-> <<>>]
    /\ Cardinality(OwnElements(elements, call.table_id)) = 2
    /\ \A d \in call.data : BagCardinality(d) = 2

\* C26: the watermark sent upstream for a Table is the last_edited value of
\* one of the Elements cached for that Table, and as long as the Table is not
\* reset it never decreases, when upstream answers a watermark only with rows
\* edited strictly after it.
C26_WatermarkMonotone ==
    [][/\ (Serving /\ call'.called)
            => \A w \in call'.filter :
                   \E e \in OwnElements(elements, call'.table_id) : w = isoformat(e.last_edited)
       /\ \A table_id \in TableIds :
              ~Resetting(table_id)
              => Watermark(elements', table_id) >= Watermark(elements, table_id)]_vars

\* a watermark was sent, upstream answered a newer version of a row the
\* Table caches, and the watermark of the Table has risen
C26_Witness ==
    /\ call.called
    /\ call.status = "ok"
    /\ call.filter # NULL
    /\ call.found # {}
    /\ \A w \in call.filter : Watermark(elements, call.table_id) > w.local

\* the stored Attributes whose Element is not stored
Orphans(elems, attrs) == {a \in attrs : \A e \in elems : e.id # a.element_id}

\* C29: in every reachable state each stored Attribute references an existing
\* Element; in particular after the reset of a Table (a bulk delete of its
\* Elements) no Attribute of a deleted Element remains in the store.
C29_NoOrphanAttribute == Orphans(elements, attributes) = {}

\* a reset has deleted the Element with id 1 while the Element with id 2 and
\* its Attributes are kept
C29_Witness ==
    /\ call # NoRequest
    /\ call.reset_cache
    /\ \A e \in elements : e.id # 1
    /\ \E e \in elements : e.id = 2 /\ AttributesOf(attributes, 2) # {}

----------------------------------------------------------------------------
(* Properties of requests served side by side, and of aborted syncs *)

\* the step in which a request reads the committed cache of a Table
ReadsCache(request, table_id) ==
    /\ syncs[request].pc = "idle"
    /\ syncs'[request].pc = "done"
    /\ ~syncs'[request].update_cache
    /\ syncs'[request].table_id = table_id

\* the row a sync is applying, and the Element it writes it to
RowWritten(request) == Head(syncs[request].all_elements)
ElementWritten(request) == {e \in elements : e.id = syncs[request].element_id}

\* the committed Element holds some but not all of the attributes of the row
PartlyWritten(request) ==
    LET stored  == AttributesOf(attributes, syncs[request].element_id)
        payload == RowAttributes(RowWritten(request), syncs[request].element_id)
    IN  stored \subseteq payload /\ stored # payload

\* C23: a reader of the committed store that runs while a sync is writing an
\* Element (creating it or updating it) never sees that Element with only a
\* strict subset of the attributes of the payload being written: an Element
\* and its full attribute set become visible together.
C23_NoPartialElement ==
    [][\A reader \in Requests, writer \in Requests, table_id \in TableIds :
          (/\ ReadsCache(reader, table_id)
           /\ syncs[writer].pc = "attributes"
           /\ \E e \in ElementWritten(writer) : e.table_id = table_id)
          => ~PartlyWritten(writer)]_vars

\* the step of crud.create_element for the row a sync found no Element for
Creates(request) == syncs[request].pc = "create" /\ syncs'[request].pc # "create"

\* C28: two syncs of one Table are not atomic. A sync that has found no
\* Element for a row creates it without looking again; when another sync
\* that read the same watermark and fetched the same row has created it in
\* between, the second create is refused by the unique index, the request
\* ends with that error and the store is left as the first sync wrote it,
\* which is the outcome of neither serial order of the two calls.
C28_DoubleApply ==
    [][\A request \in Requests :
          Creates(request)
          => IF \E e \in elements : e.notion_id = RowWritten(request).id
             THEN /\ syncs'[request].status = "IntegrityError"
                  /\ syncs'[request].pc = "done"
                  /\ elements' = elements
                  /\ attributes' = attributes
             ELSE \E e \in elements' \ elements :
                     /\ e.notion_id = RowWritten(request).id
                     /\ e.table_id = syncs[request].table_id
                     /\ syncs'[request].element_id = e.id]_vars

\* both syncs read the same watermark, drained the same batch and found no
\* Element for its first row; one has created it, the other was refused
C28_Witness ==
    \E first \in Requests, second \in Requests :
        /\ syncs[first].pc = "attributes"
        /\ syncs[second].status = "IntegrityError"
        /\ syncs[first].table_id = syncs[second].table_id
        /\ syncs[first].filter = syncs[second].filter
        /\ syncs[first].batch = syncs[second].batch
        /\ RowWritten(first) = RowWritten(second)

\* C27: when a sync has aborted while applying a drained batch, the next
\* successful sync of the Table (update_cache, no reset) leaves the cache of
\* the Table holding every row of the aborted batch (as upstream still has
\* it) with its full attribute set, whatever order the rows were delivered in.
C27_ConvergenceAfterAbort ==
    \A aborted \in Requests, retry \in Requests :
        (/\ syncs[aborted].pc = "aborted"
         /\ syncs[retry].pc = "done"
         /\ syncs[retry].retry
         /\ syncs[retry].status = "ok"
         /\ syncs[retry].table_id = syncs[aborted].table_id)
        => \A r \in Range(syncs[aborted].batch) :
              r \in notion_pages
              => \E e \in OwnElements(elements, syncs[aborted].table_id) :
                    /\ e.notion_id = r.id
                    /\ AttributesOf(attributes, e.id) = RowAttributes(r, e.id)

----------------------------------------------------------------------------
(* Properties of the mapping of upstream properties *)

KindFlagNames == {"is_bool", "is_number", "is_string", "is_date", "is_multistring"}

\* the kind flags set on an Attribute row
KindFlags(a) == {k \in KindFlagNames : a[k]}

\* the value slot a kind flag selects
SlotOf(kind) ==
    CASE kind = "is_bool" -> "value_bool"
      [] kind = "is_number" -> "value_number"
      [] kind = "is_date" -> "value_date"
      [] OTHER -> "value_string"

\* C31: every stored Attribute has exactly one of the kind flags boolean,
\* number, string, date, multistring set, and only the value slot selected by
\* that flag may be non-null, whatever the type tag of the upstream property
\* (a tag outside the known set included).
C31_KindDiscriminator ==
    \A a \in attributes :
        /\ Cardinality(KindFlags(a)) = 1
        /\ \A slot \in {"value_bool", "value_number", "value_date", "value_string"} :
              a[slot] # NULL => \E k \in KindFlags(a) : SlotOf(k) = slot

\* the Attribute a formula with this computed result is to be stored as
FormulaRow(name, result, element_id) ==
    LET base == BlankAttribute(name, "formula", element_id)
    IN  CASE result.type = "string" -> AsString(base, result.string)
          [] result.type = "number" ->
               [base EXCEPT !.value_number = result.number, !.is_number = TRUE]
          [] result.type = "boolean" ->
               [base EXCEPT !.value_bool = {result.boolean}, !.is_bool = TRUE]
          [] OTHER ->
               AsDate(base, {parse_date((CHOOSE x \in result.date : TRUE).start)})

\* a sync has been answered
Synced == call # NoRequest /\ call.called /\ call.status = "ok"

\* the rows of Element element_id named name that the session of the request sees
VisibleNamed(element_id, name) ==
    {a \in AttributesOf(attributes \ deleted, element_id) : a.name = name}

\* C32: after a sync, a formula property whose computed result is a string, a
\* number, a boolean or a date is stored as one Attribute whose kind and value
\* are those of the computed result and whose type tag is "formula".
C32_FormulaUnwrapping ==
    Synced =>
        \A r \in Range(call.answer.rows) : \A n \in DOMAIN r.properties :
            r.properties[n].type = "formula" =>
                \E e \in elements :
                    /\ e.notion_id = r.id
                    /\ VisibleNamed(e.id, n) = {FormulaRow(n, r.properties[n].formula, e.id)}

\* the list a multistring row is read back as: {} for a row without value
multistring_value(a) ==
    IF a.value_string = NULL THEN {} ELSE json_loads_list(CHOOSE x \in a.value_string : TRUE)

\* the names or ids of a multi-valued property
UpstreamList(attr) ==
    CASE attr.type = "multi_select" -> Pluck(attr.multi_select, "name")
      [] attr.type = "people" -> Pluck(attr.people, "id")
      [] OTHER -> Pluck(attr.files, "name")

----------------------------------------------------------------------------
(* Properties of malformed and composed descriptors *)

\* C33: whatever JSON value is given as filter on a non-empty cache (a
\* per-attribute entry that is no mapping, an "or" value that is no list, an
\* "or" list with a clause that is no mapping, an empty "or" list), the
\* compilation succeeds or raises WrongFilter; no other exception escapes.
C33_OnlyWrongFilter ==
    (flt # NoFilter /\ flt.db_element # NULL) => flt.raised \in {"none", "WrongFilter"}

\* a read without calculation that sent a filter and was answered with rows
FilteredRead ==
    /\ Reading
    /\ qry.calculate = NULL
    /\ qry.group_by = NULL
    /\ qry.filter # NULL
    /\ qry.db_element # NULL
    /\ qry.status = "ok"

\* whether an item of a filter is its "or" list
IsOrList(item) == item[1] = "or" /\ json_is_list(item[2])

\* the attribute entries of a filter, the clauses of its "or" lists
Entries(f) == {f[i] : i \in {j \in 1..Len(f) : ~IsOrList(f[j])}}
Clauses(f) ==
    UNION {{item[2].array[i].object : i \in 1..Len(item[2].array)}
           : item \in {f[i] : i \in {j \in 1..Len(f) : IsOrList(f[j])}}}

\* a clause of the "or" list of the filter read has an "or" list itself
NestedOr(f) == \E clause \in Clauses(f) : \E i \in 1..Len(clause) : IsOrList(clause[i])

\* the Elements the same read selects with the one entry as filter
SelectedByEntry(entry) ==
    LET got == get_attributes_of_table(Session(elements, attributes), qry.table_id, NULL,
                                       {<<entry>>}, NULL, MAX_ATTRIBUTES + 1,
                                       qry.db_element, qry.now)
    IN  {r.element_id : r \in UNION got.results}

\* the Elements of the Table read that have attributes
Readable == {a.element_id : a \in OwnAttributes(elements, attributes, qry.table_id)}

\* the Elements that satisfy every entry of a clause
SelectedByAll(entries) == {x \in Readable : \A entry \in entries : x \in SelectedByEntry(entry)}

\* C34: the Elements selected by a top-level filter are those that, for every
\* attribute entry, have an attribute of that name satisfying all the operators
\* listed for it, and that, when an "or" list is present too, are selected by
\* one of its clauses; an attribute entry next to "or" is never ignored.
C34_FilterCombination ==
    LET f == CHOOSE x \in qry.filter : TRUE
    IN  (FilteredRead /\ ~NestedOr(f)) =>
            Selected =
                {x \in SelectedByAll(Entries(f)) :
                    (\E i \in 1..Len(f) : IsOrList(f[i])) =>
                        \E clause \in Clauses(f) : x \in SelectedByAll(Entries(clause))}

\* C35: "or" is accepted at the top level only: a filter with a clause of the
\* top-level "or" list that itself holds an "or" list is refused with
\* WrongFilter, not evaluated as a nested disjunction.
C35_OrTopLevelOnly ==
    LET f == CHOOSE x \in qry.filter : TRUE
    IN  (Reading /\ qry.filter # NULL /\ qry.db_element # NULL /\ NestedOr(f))
            => qry.raised = "WrongFilter"

\* the lists the multistring attribute name of an Element is the text of
ListsOf(element_id, name) ==
    {names \in NameLists :
        \E a \in AttributesOf(attributes, element_id) :
            a.name = name /\ a.is_multistring /\ a.value_string = {json_dumps_list(names)}}

\* C36: for a cached multistring value L (a non-empty list of strings) and a
\* string operand v, over an alphabet with the characters %, _ and the quote:
\* `contains` v selects the Element iff v is an element of L,
\* `does_not_contain` v iff v is not an element of L, and `contains_only` v
\* iff L is the one-element list [v].
C36_ContainmentIsMembership ==
    (OneConditionRead /\ qry.status = "ok"
       /\ ConditionOp(qry.filter) \in {"contains", "does_not_contain", "contains_only"}) =>
        \A e \in OwnElements(elements, qry.table_id) :
            \A L \in ListsOf(e.id, ConditionName(qry.filter)) :
                LET v == str_text(ConditionValue(qry.filter))
                IN  e.id \in Selected <=>
                        CASE ConditionOp(qry.filter) = "contains" -> v \in Range(L)
                          [] ConditionOp(qry.filter) = "does_not_contain" -> v \notin Range(L)
                          [] OTHER -> L = <<v>>

----------------------------------------------------------------------------
(* Separation of the Tables *)

\* C39: a get_data call on a Table, with any flags and any upstream answer,
\* returns only Elements owned by that Table and leaves every Element and
\* Attribute owned by any other Table unchanged: not deleted by the reset, not
\* re-dated, not given new attributes.
C39_TableSeparation ==
    [][Serving =>
         /\ call'.status = "ok" =>
               call'.data = {StoredData(elements', attributes' \ deleted', call'.table_id)}
         /\ \A other \in TableIds \ {call'.table_id} :
               /\ OwnElements(elements', other) = OwnElements(elements, other)
               /\ OwnAttributes(elements', attributes', other)
                     = OwnAttributes(elements, attributes, other)]_vars

----------------------------------------------------------------------------
(* Properties of requests that sync and read in one call *)

\* the step of a request whose read ends with the invalid-descriptor error
\* or the too-many condition
DescriptorFailure ==
    /\ Serving
    /\ qry = NoQuery
    /\ qry' # NoQuery
    /\ (qry'.raised = "WrongFilter" \/ qry'.status = "TooMuchAttributes")

----------------------------------------------------------------------------
(* Registrations served side by side *)

\* the requests whose answer is known and not yet sent
AnsweredCreates == {request \in Requests : syncs[request].pc = "answered"}

OneIntegrationPerToken == \A x, y \in integrations : x.token = y.token => x = y

OneTablePerPair ==
    \A x, y \in tables : (x.integration_id = y.integration_id /\ x.table_id = y.table_id) => x = y

\* C38: in every reachable state, whatever the interleaving of concurrent
\* POST /create requests, there is at most one Integration per token and at
\* most one Table per Integration and external table id, and the requests for
\* the same pair are answered with the same ids.
C38_RegistrationUnique ==
    /\ OneIntegrationPerToken
    /\ OneTablePerPair
    /\ \A r1, r2 \in AnsweredCreates :
          (/\ syncs[r1].integration = syncs[r2].integration
           /\ syncs[r1].table = syncs[r2].table) =>
              /\ syncs[r1].status = "none"
              /\ syncs[r1].integration_id = syncs[r2].integration_id
              /\ syncs[r1].table_id = syncs[r2].table_id
====
